---------------------------- MODULE Spec2Model ----------------------------
(***************************************************************************)
(* Model of the Envio MCP server (anoop04singh/hyperMCP-ethonline):        *)
(* the tool dispatcher of index.ts, the four tool groups (HyperIndexTools, *)
(* HyperSyncTools, DocumentationTools, ConfigTools) and the BigInt         *)
(* serializer of HyperSyncTools.                                           *)
(*                                                                         *)
(* JavaScript values are tagged records.  A text built by a template       *)
(* literal is the sequence of its parts: the literal chunks and the        *)
(* String() conversion of every interpolated value, in order.              *)
(***************************************************************************)
EXTENDS Integers, Sequences, FiniteSets, TLC

VARIABLES
    pc,           \* per call slot: "idle", "awaiting" (at the await of a collaborator), "done"
    req,          \* per call slot: the request {name, arguments} being served
    reply,        \* per call slot: what the collaborator answered
    invocations,  \* per call slot: the collaborator invocations issued, in order
    raised,       \* per call slot: the exception that reached the dispatcher's catch
    outcome,      \* per call slot: what the CallTool handler returned or threw
    running,      \* the server process is alive
    docs,         \* DocumentationTools.docs, the only field of the four singletons
    listed,       \* the last answer of the ListTools handler
    hypersyncModule, \* the file the dispatcher's import of HyperSyncTools resolves to
    failed,       \* some call has ended in a failure since the server started
    after,        \* per call slot: the value of failed when the call arrived
    transport,    \* main's connection: "connecting", "connected", "failed"
    consoleError, \* the lines written with console.error by main and its catch
    exitCode,     \* the status the process exited with, Undefined while it lives
    resources,    \* the answer of the ListResources handler being sent
    readResource, \* the ReadResource request being answered, with its answer
    val,          \* serializer harness: the JSON-shaped input
    out,          \* serializer harness: serializeBigInt(val)
    out2,         \* serializer harness: serializeBigInt(serializeBigInt(val))
    spc           \* serializer harness: "input", "once", "twice"

vars == <<pc, req, reply, invocations, raised, outcome, running, docs, listed,
          hypersyncModule, failed, after, transport, consoleError, exitCode, resources,
          readResource, val, out, out2, spc>>

serverVars == <<pc, req, reply, invocations, raised, outcome, running, docs, listed,
                hypersyncModule, failed, after, transport, consoleError, exitCode,
                resources, readResource>>

-----------------------------------------------------------------------------
(* Bounds of the model *)

\* longest array / largest number of fields the serializer harness builds
MaxLen == 2
\* deepest nesting of arrays and objects the serializer harness builds
MaxDepth == 2
\* number of tool calls that may be in flight at once in SpecConc
MaxInFlight == 2

-----------------------------------------------------------------------------
(* JavaScript values *)

Null == [t |-> "null"]
Undefined == [t |-> "undefined"]
Bool(b) == [t |-> "boolean", b |-> b]
Num(n) == [t |-> "number", n |-> n]
Str(s) == [t |-> "string", s |-> s]
\* a bigint is a sign and a magnitude in big-endian limbs of 16 bits, without
\* leading zero limbs; it holds values beyond the 32-bit integers of TLC
Big(neg, limbs) == [t |-> "bigint", neg |-> neg, limbs |-> limbs]
Arr(items) == [t |-> "array", items |-> items]
\* an object is the sequence of its own enumerable fields in insertion order
Obj(fields) == [t |-> "object", fields |-> fields]
Field(k, v) == [k |-> k, v |-> v]
\* a thrown exception, as the value of an evaluation
Throw(name, message) == [t |-> "throw", name |-> name, message |-> message]

IsThrow(v) == v.t = "throw"

LimbBase == 256 * 256

DigitChar(d) ==
    CASE d = 0 -> "0" [] d = 1 -> "1" [] d = 2 -> "2" [] d = 3 -> "3" [] d = 4 -> "4"
      [] d = 5 -> "5" [] d = 6 -> "6" [] d = 7 -> "7" [] d = 8 -> "8" [] d = 9 -> "9"

\* one long division of a magnitude by ten: quotient limbs and remainder
RECURSIVE LongDiv10(_, _)
LongDiv10(limbs, carry) ==
    IF limbs = <<>> THEN [q |-> <<>>, r |-> carry]
    ELSE LET cur == carry * LimbBase + Head(limbs)
             rest == LongDiv10(Tail(limbs), cur % 10)
         IN [q |-> <<cur \div 10>> \o rest.q, r |-> rest.r]

RECURSIVE StripZeros(_)
StripZeros(limbs) ==
    IF limbs # <<>> /\ Head(limbs) = 0 THEN StripZeros(Tail(limbs)) ELSE limbs

RECURSIVE MagnitudeDigits(_)
MagnitudeDigits(limbs) ==
    IF limbs = <<>> THEN ""
    ELSE LET d == LongDiv10(limbs, 0)
         IN MagnitudeDigits(StripZeros(d.q)) \o DigitChar(d.r)

BigIntToStringRounded(b) ==
    \* the value taken through a floating-point number: the low-order limbs are lost
    IF b.limbs = <<>> THEN "0"
    ELSE (IF b.neg THEN "-" ELSE "")
         \o MagnitudeDigits([i \in 1..Len(b.limbs) |-> IF i <= 3 THEN b.limbs[i] ELSE 0])

\* BigInt.prototype.toString(): the exact base-10 text
BigIntToString(b) ==
    IF b.limbs = <<>> THEN "0"
    ELSE (IF b.neg THEN "-" ELSE "") \o MagnitudeDigits(b.limbs)

RECURSIVE NatDigits(_)
NatDigits(n) == IF n < 10 THEN DigitChar(n) ELSE NatDigits(n \div 10) \o DigitChar(n % 10)

\* Number.prototype.toString() on the integers the model uses
NumberToString(n) == IF n < 0 THEN "-" \o NatDigits(0 - n) ELSE NatDigits(n)

-----------------------------------------------------------------------------
(* HyperSyncTools.serializeBigInt *)

RECURSIVE serializeBigIntKeys(_)
serializeBigIntKeys(obj) ==
    \* without the null/undefined guard, and with Object.keys(obj) for the loop
    CASE obj.t \in {"null", "undefined"} ->
            Throw("TypeError", <<"Cannot convert undefined or null to object">>)
      [] obj.t = "bigint" -> Str(BigIntToString(obj))
      [] obj.t = "array" ->
            LET items == [i \in 1..Len(obj.items) |-> serializeBigIntKeys(obj.items[i])]
            IN IF \E i \in 1..Len(items) : IsThrow(items[i])
               THEN items[CHOOSE i \in 1..Len(items) : IsThrow(items[i])]
               ELSE Arr(items)
      [] obj.t = "object" ->
            LET fields == [i \in 1..Len(obj.fields) |->
                             Field(obj.fields[i].k, serializeBigIntKeys(obj.fields[i].v))]
            IN IF \E i \in 1..Len(fields) : IsThrow(fields[i].v)
               THEN fields[CHOOSE i \in 1..Len(fields) : IsThrow(fields[i].v)].v
               ELSE Obj(fields)
      [] OTHER -> obj

RECURSIVE serializeBigInt(_)
serializeBigInt(obj) ==
    CASE obj.t \in {"null", "undefined"} -> obj
      [] obj.t = "bigint" -> Str(BigIntToString(obj))
      [] obj.t = "array" ->
            Arr([i \in 1..Len(obj.items) |-> serializeBigInt(obj.items[i])])
      [] obj.t = "object" ->
            Obj([i \in 1..Len(obj.fields) |->
                   Field(obj.fields[i].k, serializeBigInt(obj.fields[i].v))])
      [] OTHER -> obj

-----------------------------------------------------------------------------
(* The serializer harness: JSON-shaped inputs as the query client produces *)
(* them, built up to MaxDepth and MaxLen, then serialized once and twice.  *)

Big0 == Big(FALSE, <<>>)
Big255 == Big(FALSE, <<255>>)
BigMinus1 == Big(TRUE, <<1>>)
\* 2^64 - 1
BigU64Max == Big(FALSE, <<65535, 65535, 65535, 65535>>)
\* 2^127 + 1 and -(2^127 + 1): 128-bit magnitudes
BigU128 == Big(FALSE, <<32768, 0, 0, 0, 0, 0, 0, 1>>)
BigI128 == Big(TRUE, <<32768, 0, 0, 0, 0, 0, 0, 1>>)

BigAtoms == {Big0, Big255, BigMinus1, BigU64Max, BigU128, BigI128}

Atoms ==
    BigAtoms \cup {Null, Undefined, Bool(TRUE), Num(0), Num(17), Str(""), Str("255"),
                   Str("0xabc"), Arr(<<>>), Obj(<<>>)}

\* the values appended beside an already built value
SiblingAtoms == {BigU128, Str("255")}

FieldNames == {"blockNumber", "value"}

RECURSIVE Depth(_)
RECURSIVE MaxDepthOf(_, _)
MaxDepthOf(seq, i) ==
    IF i > Len(seq) THEN 0
    ELSE LET d == Depth(seq[i])
             r == MaxDepthOf(seq, i + 1)
         IN IF d > r THEN d ELSE r
Depth(v) ==
    CASE v.t = "array" -> 1 + MaxDepthOf(v.items, 1)
      [] v.t = "object" -> 1 + MaxDepthOf([i \in 1..Len(v.fields) |-> v.fields[i].v], 1)
      [] OTHER -> 0

HarnessInit ==
    /\ val \in Atoms
    /\ out = Undefined
    /\ out2 = Undefined
    /\ spc = "input"

WrapArray ==
    /\ spc = "input"
    /\ Depth(val) < MaxDepth
    /\ val' = Arr(<<val>>)
    /\ UNCHANGED <<out, out2, spc>>
    /\ UNCHANGED serverVars

PushItem(a) ==
    /\ spc = "input"
    /\ val.t = "array"
    /\ Len(val.items) < MaxLen
    /\ val' = Arr(Append(val.items, a))
    /\ UNCHANGED <<out, out2, spc>>
    /\ UNCHANGED serverVars

WrapObject(k) ==
    /\ spc = "input"
    /\ Depth(val) < MaxDepth
    /\ val' = Obj(<<Field(k, val)>>)
    /\ UNCHANGED <<out, out2, spc>>
    /\ UNCHANGED serverVars

PutField(k, a) ==
    /\ spc = "input"
    /\ val.t = "object"
    /\ Len(val.fields) < MaxLen
    /\ \A i \in 1..Len(val.fields) : val.fields[i].k # k
    /\ val' = Obj(Append(val.fields, Field(k, a)))
    /\ UNCHANGED <<out, out2, spc>>
    /\ UNCHANGED serverVars

Serialize ==
    /\ spc = "input"
    /\ out' = serializeBigInt(val)
    /\ spc' = "once"
    /\ UNCHANGED <<val, out2>>
    /\ UNCHANGED serverVars

SerializeAgain ==
    /\ spc = "once"
    /\ out2' = IF IsThrow(out) THEN out ELSE serializeBigInt(out)
    /\ spc' = "twice"
    /\ UNCHANGED <<val, out>>
    /\ UNCHANGED serverVars

SerNext ==
    \/ WrapArray
    \/ \E a \in SiblingAtoms : PushItem(a)
    \/ \E k \in FieldNames : WrapObject(k)
    \/ \E k \in FieldNames, a \in SiblingAtoms : PutField(k, a)
    \/ Serialize
    \/ SerializeAgain

-----------------------------------------------------------------------------
(* The server (idle while the serializer harness runs)     *)

Slots == 1..MaxInFlight

\* the docs map of a DocumentationTools after its constructor: loadDocs loads nothing
LoadedDocs == <<>>

ServerInit ==
    /\ pc = [c \in Slots |-> "idle"]
    /\ req = [c \in Slots |-> Undefined]
    /\ reply = [c \in Slots |-> Undefined]
    /\ invocations = [c \in Slots |-> <<>>]
    /\ raised = [c \in Slots |-> Undefined]
    /\ outcome = [c \in Slots |-> Undefined]
    /\ running = TRUE
    /\ docs = LoadedDocs
    /\ listed = <<>>
    /\ failed = FALSE
    /\ after = [c \in Slots |-> FALSE]
    /\ resources = Undefined
    /\ readResource = Undefined

HarnessIdle ==
    /\ val = Undefined
    /\ out = Undefined
    /\ out2 = Undefined
    /\ spc = "off"

-----------------------------------------------------------------------------
(* JavaScript helpers used by the handlers *)

\* obj[k] on an argument bag or a reply: the field's value, or undefined
Get(obj, k) ==
    IF obj.t = "object" /\ \E i \in 1..Len(obj.fields) : obj.fields[i].k = k
    THEN obj.fields[CHOOSE i \in 1..Len(obj.fields) : obj.fields[i].k = k].v
    ELSE Undefined

\* the truthiness tested by if (x), x || y and x && y
Truthy(v) ==
    CASE v.t \in {"null", "undefined"} -> FALSE
      [] v.t = "boolean" -> v.b
      [] v.t = "number" -> v.n # 0
      [] v.t = "string" -> v.s # ""
      [] v.t = "bigint" -> v.limbs # <<>>
      [] OTHER -> TRUE

\* String(v), as a template literal applies it to an interpolated value
ToStr(v) ==
    CASE v.t = "undefined" -> "undefined"
      [] v.t = "null" -> "null"
      [] v.t = "boolean" -> IF v.b THEN "true" ELSE "false"
      [] v.t = "number" -> NumberToString(v.n)
      [] v.t = "string" -> v.s
      [] v.t = "bigint" -> BigIntToString(v)
      [] v.t = "array" -> IF v.items = <<>> THEN "" ELSE "[array]"
      [] v.t = "function" -> "function " \o v.name \o "() { [native code] }"
      [] OTHER -> "[object Object]"

\* const { a, b } = args throws when args is undefined or null
DestructureFails(args) == args.t \in {"null", "undefined"}
DestructureError(first) ==
    Throw("TypeError", <<"Cannot destructure property '", first,
                         "' of 'args' as it is undefined.">>)

\* sub occurs in text as a run of consecutive parts
Contains(text, sub) ==
    \E i \in 0..(Len(text) - Len(sub)) :
        \A j \in 1..Len(sub) : text[i + j] = sub[j]

RECURSIVE HasBigInt(_)
HasBigInt(v) ==
    CASE v.t = "bigint" -> TRUE
      [] v.t = "array" -> \E i \in 1..Len(v.items) : HasBigInt(v.items[i])
      [] v.t = "object" -> \E i \in 1..Len(v.fields) : HasBigInt(v.fields[i].v)
      [] OTHER -> FALSE

RECURSIVE Pad(_)
Pad(n) == IF n <= 0 THEN "" ELSE " " \o Pad(n - 1)

RECURSIVE JoinLines(_)
JoinLines(lines) ==
    IF lines = <<>> THEN ""
    ELSE IF Len(lines) = 1 THEN lines[1]
    ELSE lines[1] \o ",\n" \o JoinLines(Tail(lines))

\* the fields JSON.stringify writes: those whose value is not undefined
RECURSIVE Defined(_)
Defined(fields) ==
    IF fields = <<>> THEN <<>>
    ELSE IF Head(fields).v = Undefined THEN Defined(Tail(fields))
    ELSE <<Head(fields)>> \o Defined(Tail(fields))

\* the text JSON.stringify(v, null, 2) writes for a value without big integers
RECURSIVE Render(_, _)
Render(v, ind) ==
    CASE v.t \in {"null", "undefined"} -> "null"
      [] v.t = "boolean" -> IF v.b THEN "true" ELSE "false"
      [] v.t = "number" -> NumberToString(v.n)
      [] v.t = "string" -> "\"" \o v.s \o "\""
      [] v.t = "array" ->
            IF v.items = <<>> THEN "[]"
            ELSE "[\n"
                 \o JoinLines([i \in 1..Len(v.items) |->
                                 Pad(ind + 2) \o Render(v.items[i], ind + 2)])
                 \o "\n" \o Pad(ind) \o "]"
      [] v.t = "object" ->
            LET fs == Defined(v.fields)
            IN IF fs = <<>> THEN "{}"
               ELSE "{\n"
                    \o JoinLines([i \in 1..Len(fs) |->
                                    Pad(ind + 2) \o "\"" \o fs[i].k \o "\": "
                                    \o Render(fs[i].v, ind + 2)])
                    \o "\n" \o Pad(ind) \o "}"

\* JSON.stringify(v, null, 2): a string, or the TypeError it throws on a bigint
JsonStringify(v) ==
    IF HasBigInt(v)
    THEN Throw("TypeError", <<"Do not know how to serialize a BigInt">>)
    ELSE Str(Render(v, 0))

\* arr.slice(0, n)
Slice(items, n) == SubSeq(items, 1, IF Len(items) < n THEN Len(items) ELSE n)

-----------------------------------------------------------------------------
(* Tool results and the steps of a handler *)

TextBlock(text) == [type |-> "text", text |-> text]
\* { content: [{ type: "text", text }] }: a success result carries no isError key
OkResult(text) == [content |-> <<TextBlock(text)>>]
ErrResultUnflagged(text) ==
    \* a catch block that forgets the isError flag
    [content |-> <<TextBlock(text)>>]

\* { content: [{ type: "text", text }], isError: true }
ErrResult(text) == [content |-> <<TextBlock(text)>>, isError |-> TRUE]

IsError(result) == "isError" \in DOMAIN result /\ result.isError = TRUE

\* what a handler does up to its next await, or after it
Return(result) == [k |-> "return", result |-> result]
Raise(exc) == [k |-> "throw", exc |-> exc]
Await(invocation) == [k |-> "await", invocation |-> invocation]

\* execAsync(cmd, { timeout }); a timeout of 0 stands for no timeout option
Exec(cmd, timeout) == [collab |-> "subprocess", cmd |-> cmd, timeout |-> timeout]
\* client.stream(query, {}) followed by stream.recv(), on the client of url
Stream(url, query) == [collab |-> "client", url |-> url, query |-> query]

\* replies of the subprocess: its output, or the error execAsync rejects with
ExecOk(stdout) == [ok |-> TRUE, stdout |-> stdout]
ExecFailed(cmd, stderr, killed) ==
    [ok |-> FALSE, killed |-> killed,
     message |-> <<"Command failed: ">> \o cmd \o <<"\n", stderr>>]

\* replies of the query client: the value recv() resolves to, or the error
ClientOk(res) == [ok |-> TRUE, res |-> res]
ClientFailed(message) ==
    [ok |-> FALSE, message |-> <<message>>, stack |-> <<"Error: ", message, "\n    at stream">>]

-----------------------------------------------------------------------------
(* Tool names and descriptors *)

\* A tool name is kept as its part up to and including the first "_" and the
\* rest, so that name.startsWith("docs_") is a test of the first part: every
\* prefix the dispatcher tests ends with the only "_" it contains.
ToolName(prefix, rest) == [prefix |-> prefix, rest |-> rest]
FullName(name) == name.prefix \o name.rest
StartsWith(name, prefix) == name.prefix = prefix

Descriptor(name, required) == [name |-> name, required |-> required]

\* the descriptors of the first HyperIndexTools class of hyperindex.ts, which the
\* second class of the same name replaces
HyperIndexToolDefinitionsFirst ==
    << Descriptor("hyperindex_init_project", <<"name", "language">>),
       Descriptor("hyperindex_import_contract", <<"address", "blockchain">>),
       Descriptor("hyperindex_validate_config", <<"config_path">>),
       Descriptor("hyperindex_generate_schema", <<"entities">>),
       Descriptor("hyperindex_generate_handler", <<"contract_name", "event_name", "language">>),
       Descriptor("hyperindex_setup_dynamic_contracts", <<"factory_address", "event_name">>),
       Descriptor("hyperindex_configure_multichain", <<"networks">>),
       Descriptor("hyperindex_run_codegen", <<"project_path">>) >>

HyperIndexToolDefinitionsCurrent ==
    << Descriptor("hyperindex_init_project", <<"name", "language">>),
       Descriptor("hyperindex_init_contract_import_explorer",
                  <<"name", "contract_address", "blockchain", "language">>),
       Descriptor("hyperindex_init_contract_import_local",
                  <<"name", "abi_file", "contract_name", "blockchain", "language">>),
       Descriptor("hyperindex_init_template", <<"name", "template", "language">>),
       Descriptor("hyperindex_dev", <<>>),
       Descriptor("hyperindex_codegen", <<>>),
       Descriptor("hyperindex_start", <<>>),
       Descriptor("hyperindex_stop", <<>>),
       Descriptor("hyperindex_local_docker_up", <<>>),
       Descriptor("hyperindex_local_docker_down", <<>>),
       Descriptor("hyperindex_local_db_migrate_setup", <<>>),
       Descriptor("hyperindex_benchmark_summary", <<>>),
       Descriptor("hyperindex_validate_config", <<>>),
       Descriptor("hyperindex_generate_handler", <<"contract_name", "event_name", "language">>),
       Descriptor("hyperindex_check_installation", <<>>) >>

HyperIndexToolDefinitionsBoth ==
    \* both classes of hyperindex.ts advertised together
    HyperIndexToolDefinitionsCurrent \o HyperIndexToolDefinitionsFirst

\* HyperIndexTools.getToolDefinitions
HyperIndexToolDefinitions == HyperIndexToolDefinitionsCurrent

\* the descriptors with one more, for a tool that executeTool has no case for
HyperSyncToolDefinitionsWithStream ==
    << Descriptor("hypersync_query_logs", <<"network">>),
       Descriptor("hypersync_query_transactions", <<"network">>),
       Descriptor("hypersync_build_query", <<"query_type">>),
       Descriptor("hypersync_get_network_endpoint", <<>>),
       Descriptor("hypersync_stream_events", <<"network">>) >>

\* HyperSyncTools.getToolDefinitions
HyperSyncToolDefinitions ==
    << Descriptor("hypersync_query_logs", <<"network">>),
       Descriptor("hypersync_query_transactions", <<"network">>),
       Descriptor("hypersync_build_query", <<"query_type">>),
       Descriptor("hypersync_get_network_endpoint", <<>>) >>

\* DocumentationTools.getToolDefinitions
DocToolDefinitions ==
    << Descriptor("docs_search", <<"query">>),
       Descriptor("docs_get_config_reference", <<"parameter">>),
       Descriptor("docs_get_examples", <<"use_case">>),
       Descriptor("docs_troubleshoot_error", <<"error_message">>) >>

\* ConfigTools.getToolDefinitions
ConfigToolDefinitions ==
    << Descriptor("config_create_template", <<"project_name">>),
       Descriptor("config_add_network", <<"config_path", "chain_id">>),
       Descriptor("config_add_contract", <<"config_path", "contract_name">>) >>

\* the answer of the ListTools handler
ListToolsResponse ==
    HyperIndexToolDefinitions \o HyperSyncToolDefinitions
        \o DocToolDefinitions \o ConfigToolDefinitions

\* the descriptor the registry holds for a name, if any
Registered(full) == \E i \in DOMAIN ListToolsResponse : ListToolsResponse[i].name = full
DescriptorOf(full) ==
    ListToolsResponse[CHOOSE i \in DOMAIN ListToolsResponse : ListToolsResponse[i].name = full]

-----------------------------------------------------------------------------
(* HyperIndexTools (the second class of hyperindex.ts).  A handler is an   *)
(* operator of the argument bag and of the collaborator's reply: with      *)
(* NoReply it runs up to its await, with a reply it runs from there to its *)
(* end.  The emoji that open the texts are left out of the literal chunks, *)
(* and a backtick is written as a single quote.                            *)

NoReply == [t |-> "noreply"]

\* x || y
Or(x, y) == IF Truthy(x) THEN x ELSE y

InitTimeout == 120000
CodegenTimeout == 60000
StopTimeout == 30000
DockerUpTimeout == 60000
DockerDownTimeout == 30000
DbMigrateTimeout == 30000
BenchmarkTimeout == 10000

\* directory ? 'cd ${directory} && ${cmd}' : cmd
InDirectory(directory, cmd) ==
    IF Truthy(directory) THEN <<"cd ", ToStr(directory), " && ">> \o cmd ELSE cmd

\* if (x) cmd += ' ${flag} ${x}'
Flag(flag, x) == IF Truthy(x) THEN <<flag, ToStr(x)>> ELSE <<>>
\* if (x) cmd += ' ${flag}'
Switch(flag, x) == IF Truthy(x) THEN <<flag>> ELSE <<>>

NextSteps(dir) == <<"\n\n**Next steps:**\n'''bash\ncd ", ToStr(dir), "\npnpm install\npnpm dev\n'''\n\n">>

checkEnvioCLI(rep) ==
    IF rep = NoReply THEN Await(Exec(<<"envio --help">>, 0))
    ELSE IF rep.ok
         THEN Return([installed |-> TRUE, message |-> "Envio CLI is installed"])
         ELSE Return([installed |-> FALSE,
                      message |-> "Envio CLI not found. Install with: npm install -g envio"])

checkInstallation(rep) ==
    LET check == checkEnvioCLI(rep)
    IN IF check.k = "await" THEN check
       ELSE IF check.result.installed
            THEN Return(OkResult(<<"Envio CLI is installed and ready!\n\nRun 'envio --help' to see available commands.">>))
            ELSE Return(OkResult(<<"", check.result.message,
                                   "\n\n**Install now:**\n'''bash\nnpm install -g envio\n'''">>))

initProject(args, rep) ==
    IF DestructureFails(args) THEN Raise(DestructureError("name"))
    ELSE
    LET name == Get(args, "name")
        language == Get(args, "language")
        directory == Get(args, "directory")
        api_token == Get(args, "api_token")
        cmd == <<"envio init -n ", ToStr(name), " -l ", ToStr(language)>>
               \o Flag(" -d ", directory) \o Flag(" --api-token ", api_token)
    IN IF rep = NoReply THEN Await(Exec(cmd, InitTimeout))
       ELSE IF rep.ok
            THEN Return(OkResult(<<"Project initialized!\n\n**Name:** ", ToStr(name),
                                   "\n**Language:** ", ToStr(language),
                                   "\n**Directory:** ", ToStr(Or(directory, name))>>
                                 \o NextSteps(Or(directory, name)) \o <<rep.stdout>>))
            ELSE Return(ErrResult(<<"Init failed: ">> \o rep.message))

initContractImportExplorer(args, rep) ==
    IF DestructureFails(args) THEN Raise(DestructureError("name"))
    ELSE
    LET name == Get(args, "name")
        contract_address == Get(args, "contract_address")
        blockchain == Get(args, "blockchain")
        language == Get(args, "language")
        directory == Get(args, "directory")
        cmd == <<"envio init contract-import explorer -n ", ToStr(name),
                 " -c ", ToStr(contract_address), " -b ", ToStr(blockchain),
                 " -l ", ToStr(language)>>
               \o Flag(" -d ", directory)
               \o Switch(" --single-contract", Get(args, "single_contract"))
               \o Switch(" --all-events", Get(args, "all_events"))
               \o Flag(" --api-token ", Get(args, "api_token"))
    IN IF rep = NoReply THEN Await(Exec(cmd, InitTimeout))
       ELSE IF rep.ok
            THEN Return(OkResult(<<"Contract imported from block explorer!\n\n**Contract:** ",
                                   ToStr(contract_address), "\n**Network:** ", ToStr(blockchain),
                                   "\n**Project:** ", ToStr(name)>>
                                 \o NextSteps(Or(directory, name)) \o <<rep.stdout>>))
            ELSE Return(ErrResult(<<"Import failed: ">> \o rep.message
                    \o <<"\n\nMake sure the contract is verified on the block explorer.">>))

initContractImportLocal(args, rep) ==
    IF DestructureFails(args) THEN Raise(DestructureError("name"))
    ELSE
    LET name == Get(args, "name")
        abi_file == Get(args, "abi_file")
        contract_name == Get(args, "contract_name")
        blockchain == Get(args, "blockchain")
        start_block == Get(args, "start_block")
        directory == Get(args, "directory")
        cmd == <<"envio init contract-import local -n ", ToStr(name),
                 " -a ", ToStr(abi_file), " --contract-name ", ToStr(contract_name),
                 " -c ", ToStr(Get(args, "contract_address")), " -b ", ToStr(blockchain),
                 " -l ", ToStr(Get(args, "language"))>>
               \o (IF start_block # Undefined THEN <<" -s ", ToStr(start_block)>> ELSE <<>>)
               \o Flag(" -r ", Get(args, "rpc_url"))
               \o Flag(" -d ", directory)
               \o Flag(" --api-token ", Get(args, "api_token"))
    IN IF rep = NoReply THEN Await(Exec(cmd, InitTimeout))
       ELSE IF rep.ok
            THEN Return(OkResult(<<"Contract imported from local ABI!\n\n**Contract:** ",
                                   ToStr(contract_name), "\n**ABI:** ", ToStr(abi_file),
                                   "\n**Network:** ", ToStr(blockchain)>>
                                 \o NextSteps(Or(directory, name)) \o <<rep.stdout>>))
            ELSE Return(ErrResult(<<"Import failed: ">> \o rep.message
                    \o <<"\n\nCheck that the ABI file exists and is valid JSON.">>))

initTemplate(args, rep) ==
    IF DestructureFails(args) THEN Raise(DestructureError("name"))
    ELSE
    LET name == Get(args, "name")
        template == Get(args, "template")
        directory == Get(args, "directory")
        cmd == <<"envio init template -n ", ToStr(name), " -t ", ToStr(template),
                 " -l ", ToStr(Get(args, "language"))>>
               \o Flag(" -d ", directory) \o Flag(" --api-token ", Get(args, "api_token"))
    IN IF rep = NoReply THEN Await(Exec(cmd, InitTimeout))
       ELSE IF rep.ok
            THEN Return(OkResult(<<"Template project created!\n\n**Template:** ", ToStr(template),
                                   "\n**Name:** ", ToStr(name)>>
                                 \o NextSteps(Or(directory, name)) \o <<rep.stdout>>))
            ELSE Return(ErrResult(<<"Template init failed: ">> \o rep.message))

devRunning(args) ==
    \* a handler that starts the dev loop itself before it answers
    IF \A c \in Slots : invocations[c] = <<>>
    THEN Await(Exec(<<"envio dev">>, 0))
    ELSE Return(OkResult(<<"Development mode started">>))

dev(args) ==
    IF DestructureFails(args) THEN Raise(DestructureError("directory"))
    ELSE
    LET directory == Get(args, "directory")
    IN Return(OkResult(<<"To start development mode, run:\n\n'''bash\n">>
            \o (IF Truthy(directory) THEN <<"cd ", ToStr(directory), "\n">> ELSE <<"">>)
            \o <<"envio dev\n'''\n\nThis will:\nStart the indexer with hot reloading\nAuto-generate code on config changes\nStart local GraphQL server\n\n**Stop with:** Ctrl+C">>))

codegenRetrying(args, rep) ==
    \* a handler that runs the command a second time when the first run fails
    IF DestructureFails(args) THEN Raise(DestructureError("directory"))
    ELSE
    LET cmd == InDirectory(Get(args, "directory"), <<"envio codegen">>)
    IN IF rep = NoReply THEN Await(Exec(cmd, CodegenTimeout))
       ELSE IF rep.ok
            THEN Return(OkResult(<<"Code generation complete!\n\n", rep.stdout,
                    "\n\n**Generated files:**\n- Handler types\n- Entity types\n- GraphQL schema">>))
            ELSE IF \A c \in Slots : Len(invocations[c]) <= 1
            THEN Await(Exec(cmd, CodegenTimeout))
            ELSE Return(ErrResult(<<"Codegen failed: ">> \o rep.message))

codegen(args, rep) ==
    IF DestructureFails(args) THEN Raise(DestructureError("directory"))
    ELSE
    LET cmd == InDirectory(Get(args, "directory"), <<"envio codegen">>)
    IN IF rep = NoReply THEN Await(Exec(cmd, CodegenTimeout))
       ELSE IF rep.ok
            THEN Return(OkResult(<<"Code generation complete!\n\n", rep.stdout,
                    "\n\n**Generated files:**\n- Handler types\n- Entity types\n- GraphQL schema">>))
            ELSE Return(ErrResult(<<"Codegen failed: ">> \o rep.message))

start(args) ==
    IF DestructureFails(args) THEN Raise(DestructureError("directory"))
    ELSE
    LET restart == Get(args, "restart")
        bench == Get(args, "bench")
        cmd == InDirectory(Get(args, "directory"),
                           <<"envio start">> \o Switch(" -r", restart) \o Switch(" -b", bench))
    IN Return(OkResult(<<"To start the indexer, run:\n\n'''bash\n">> \o cmd
            \o <<"\n'''\n\n**Options:**\n",
                 IF Truthy(restart) THEN "Will clear database and restart\n" ELSE "",
                 IF Truthy(bench) THEN "Will save benchmark data\n" ELSE "">>))

stop(args, rep) ==
    IF DestructureFails(args) THEN Raise(DestructureError("directory"))
    ELSE
    LET cmd == InDirectory(Get(args, "directory"), <<"envio stop">>)
    IN IF rep = NoReply THEN Await(Exec(cmd, StopTimeout))
       ELSE IF rep.ok
            THEN Return(OkResult(<<"Environment stopped!\n\n", rep.stdout,
                    "\n\nThis deleted the database and stopped all processes.">>))
            ELSE Return(ErrResult(<<"Stop failed: ">> \o rep.message))

localDockerUp(args, rep) ==
    IF DestructureFails(args) THEN Raise(DestructureError("directory"))
    ELSE
    LET cmd == InDirectory(Get(args, "directory"), <<"envio local docker up">>)
    IN IF rep = NoReply THEN Await(Exec(cmd, DockerUpTimeout))
       ELSE IF rep.ok
            THEN Return(OkResult(<<"Docker containers started!\n\n", rep.stdout>>))
            ELSE Return(ErrResult(<<"Docker up failed: ">> \o rep.message
                    \o <<"\n\nMake sure Docker Desktop is running.">>))

localDockerDown(args, rep) ==
    IF DestructureFails(args) THEN Raise(DestructureError("directory"))
    ELSE
    LET cmd == InDirectory(Get(args, "directory"), <<"envio local docker down">>)
    IN IF rep = NoReply THEN Await(Exec(cmd, DockerDownTimeout))
       ELSE IF rep.ok
            THEN Return(OkResult(<<"Docker containers stopped!\n\n", rep.stdout>>))
            ELSE Return(ErrResult(<<"Docker down failed: ">> \o rep.message))

localDbMigrateSetup(args, rep) ==
    IF DestructureFails(args) THEN Raise(DestructureError("directory"))
    ELSE
    LET cmd == InDirectory(Get(args, "directory"), <<"envio local db-migrate setup">>)
    IN IF rep = NoReply THEN Await(Exec(cmd, DbMigrateTimeout))
       ELSE IF rep.ok
            THEN Return(OkResult(<<"Database schema setup complete!\n\n", rep.stdout>>))
            ELSE Return(ErrResult(<<"DB setup failed: ">> \o rep.message))

benchmarkSummary(args, rep) ==
    IF DestructureFails(args) THEN Raise(DestructureError("directory"))
    ELSE
    LET cmd == InDirectory(Get(args, "directory"), <<"envio benchmark-summary">>)
    IN IF rep = NoReply THEN Await(Exec(cmd, BenchmarkTimeout))
       ELSE IF rep.ok
            THEN Return(OkResult(<<"Benchmark Summary:\n\n'''\n", rep.stdout, "\n'''">>))
            ELSE Return(ErrResult(<<"No benchmark data found. Run 'envio start --bench' first.">>))

generateHandler(args) ==
    IF DestructureFails(args) THEN Raise(DestructureError("contract_name"))
    ELSE
    LET contract_name == ToStr(Get(args, "contract_name"))
        event_name == ToStr(Get(args, "event_name"))
        entity == ToStr(Or(Get(args, "entity"), Get(args, "event_name")))
    IN Return(OkResult(<<"Handler template:\n\n'''", ToStr(Get(args, "language")),
            "\nimport { ", contract_name, " } from \"../generated/src/Handlers.gen\";\n\n",
            contract_name, ".", event_name,
            ".handler(async ({ event, context }) => {\n  const id = '${event.transaction.hash}-${event.logIndex}';\n  \n  let entity = await context.",
            entity,
            ".get(id);\n  \n  if (!entity) {\n    entity = {\n      id,\n      blockNumber: event.block.number,\n      blockTimestamp: event.block.timestamp,\n      transactionHash: event.transaction.hash,\n    };\n  }\n  \n  await context.",
            entity, ".set(entity);\n});", "\n'''">>))

-----------------------------------------------------------------------------
(* The YAML library and the file system, as validateConfig uses them *)

\* the documents of the model and what yaml.parse makes of each
YamlParse(text) ==
    CASE text = "name: x\n" -> Obj(<<Field("name", Str("x"))>>)
      [] text = "networks: []\ncontracts: []\n" ->
            Obj(<<Field("networks", Arr(<<>>)), Field("contracts", Arr(<<>>))>>)
      [] text = "name: x\nnetworks:\n  - id: 1\n    start_block: 0\ncontracts: []\n" ->
            Obj(<<Field("name", Str("x")),
                  Field("networks", Arr(<<Obj(<<Field("id", Num(1)),
                                                Field("start_block", Num(0))>>)>>)),
                  Field("contracts", Arr(<<>>))>>)
      [] text = "name: x\nnetworks:\n  - start_block: 0\ncontracts: []\n" ->
            Obj(<<Field("name", Str("x")),
                  Field("networks", Arr(<<Obj(<<Field("start_block", Num(0))>>)>>)),
                  Field("contracts", Arr(<<>>))>>)
      [] text = "name: x\nnetworks:\n  - id: 1\n    start_block: 0\n    contracts: []\ncontracts: []\n" ->
            Obj(<<Field("name", Str("x")),
                  Field("networks", Arr(<<Obj(<<Field("id", Num(1)),
                                                Field("start_block", Num(0)),
                                                Field("contracts", Arr(<<>>))>>)>>)),
                  Field("contracts", Arr(<<>>))>>)
      [] text = "name: x\nnetworks:\n  - id: 8453\n    start_block: 0\ncontracts: []\n" ->
            Obj(<<Field("name", Str("x")),
                  Field("networks", Arr(<<Obj(<<Field("id", Num(8453)),
                                                Field("start_block", Num(0))>>)>>)),
                  Field("contracts", Arr(<<>>))>>)
      [] text = "name: multi-chain-indexer\nunorderedmultichainmode: true\nnetworks:\n  - id: 1\n    start_block: 0\n    contracts: []\n" ->
            Obj(<<Field("name", Str("multi-chain-indexer")),
                  Field("unorderedmultichainmode", Bool(TRUE)),
                  Field("networks", Arr(<<Obj(<<Field("id", Num(1)),
                                                Field("start_block", Num(0)),
                                                Field("contracts", Arr(<<>>))>>)>>))>>)
      [] text = "name: multi-chain-indexer\nunorderedmultichainmode: true\nnetworks:\n  - id: 1\n    start_block: 100\n    contracts: []\n" ->
            Obj(<<Field("name", Str("multi-chain-indexer")),
                  Field("unorderedmultichainmode", Bool(TRUE)),
                  Field("networks", Arr(<<Obj(<<Field("id", Num(1)),
                                                Field("start_block", Num(100)),
                                                Field("contracts", Arr(<<>>))>>)>>))>>)
      [] text = "name: multi-chain-indexer\nunorderedmultichainmode: true\nnetworks:\n  - id: 1\n    start_block: 0\n    contracts: []\n  - id: 8453\n    start_block: 0\n    contracts: []\n" ->
            Obj(<<Field("name", Str("multi-chain-indexer")),
                  Field("unorderedmultichainmode", Bool(TRUE)),
                  Field("networks", Arr(<<Obj(<<Field("id", Num(1)),
                                                Field("start_block", Num(0)),
                                                Field("contracts", Arr(<<>>))>>),
                                          Obj(<<Field("id", Num(8453)),
                                                Field("start_block", Num(0)),
                                                Field("contracts", Arr(<<>>))>>)>>))>>)
      [] text = "" -> Null
      [] text = "name: [x\n" ->
            Throw("YAMLParseError",
                  <<"Flow sequence in block collection must be sufficiently indented and end with a ]">>)
      [] OTHER -> Str(text)

ReadFile(path) == [collab |-> "fs", op |-> "readFile", path |-> path]
FileRead(content) == [ok |-> TRUE, content |-> content]
FileMissing(path) ==
    [ok |-> FALSE, message |-> <<"ENOENT: no such file or directory, open '", path, "'">>]

\* x.length
Length(x) == IF x.t = "array" THEN Num(Len(x.items)) ELSE Undefined

\* errors.map(e => '* ' + e).join("\n")
RECURSIVE Bullets(_)
Bullets(errors) ==
    IF errors = <<>> THEN <<>>
    ELSE IF Len(errors) = 1 THEN <<"* " \o errors[1]>>
    ELSE <<"* " \o errors[1], "\n">> \o Bullets(Tail(errors))

validateConfig(args, rep) ==
    IF DestructureFails(args) THEN Raise(DestructureError("config_path"))
    ELSE
    LET config_path == Get(args, "config_path")
        config_content == Get(args, "config_content")
    IN IF ~Truthy(config_content) /\ ~Truthy(config_path)
       THEN Return(ErrResult(<<"Provide config_path or config_content">>))
       ELSE IF ~Truthy(config_content) /\ rep = NoReply
       THEN Await(ReadFile(ToStr(config_path)))
       ELSE IF ~Truthy(config_content) /\ ~rep.ok
       THEN Return(ErrResult(<<"">> \o rep.message))
       ELSE
       LET content == IF Truthy(config_content) THEN ToStr(config_content) ELSE rep.content
           config == YamlParse(content)
           errors == (IF ~Truthy(Get(config, "name")) THEN <<"Missing 'name' field">> ELSE <<>>)
                     \o (IF ~Truthy(Get(config, "networks"))
                         THEN <<"Missing 'networks' array">> ELSE <<>>)
                     \o (IF ~Truthy(Get(config, "contracts"))
                         THEN <<"Missing 'contracts' array">> ELSE <<>>)
       IN IF IsThrow(config) THEN Return(ErrResult(<<"">> \o config.message))
          ELSE IF config.t \in {"null", "undefined"}
          THEN Return(ErrResult(<<"", "Cannot read properties of ", ToStr(config),
                                  " (reading 'name')">>))
          ELSE IF errors # <<>>
          THEN Return(ErrResult(<<"Validation errors:\n">> \o Bullets(errors)))
          ELSE Return(OkResult(<<"Config is valid!\n\n**Name:** ", ToStr(Get(config, "name")),
                    "\n**Networks:** ", ToStr(Length(Get(config, "networks"))),
                    "\n**Contracts:** ", ToStr(Length(Get(config, "contracts")))>>))

\* HyperIndexTools.executeTool: the handler of each case label
HyperIndexExecuteTool(full, args, rep) ==
    CASE full = "hyperindex_init_project" -> initProject(args, rep)
      [] full = "hyperindex_init_contract_import_explorer" -> initContractImportExplorer(args, rep)
      [] full = "hyperindex_init_contract_import_local" -> initContractImportLocal(args, rep)
      [] full = "hyperindex_init_template" -> initTemplate(args, rep)
      [] full = "hyperindex_dev" -> dev(args)
      [] full = "hyperindex_codegen" -> codegen(args, rep)
      [] full = "hyperindex_start" -> start(args)
      [] full = "hyperindex_stop" -> stop(args, rep)
      [] full = "hyperindex_local_docker_up" -> localDockerUp(args, rep)
      [] full = "hyperindex_local_docker_down" -> localDockerDown(args, rep)
      [] full = "hyperindex_local_db_migrate_setup" -> localDbMigrateSetup(args, rep)
      [] full = "hyperindex_benchmark_summary" -> benchmarkSummary(args, rep)
      [] full = "hyperindex_validate_config" -> validateConfig(args, rep)
      [] full = "hyperindex_generate_handler" -> generateHandler(args)
      [] full = "hyperindex_check_installation" -> checkInstallation(rep)
      [] OTHER -> Raise(Throw("Error", <<"Unknown tool: ", full>>))

-----------------------------------------------------------------------------
(* HyperSyncTools (src/tools/hypersync.ts) *)

\* String.prototype.toLowerCase on the network names of the model
LowerCase(str) ==
    CASE str \in {"Base", "BASE"} -> "base"
      [] str = "Ethereum" -> "ethereum"
      [] OTHER -> str

\* the lower-case keys every object literal inherits from Object.prototype
InheritedKeys == {"constructor", "__proto__"}
Inherited(key) ==
    IF key = "constructor" THEN [t |-> "function", name |-> "Object"] ELSE Obj(<<>>)

\* the map of getEndpoint
EndpointMap ==
    [ethereum |-> "https://eth.hypersync.xyz",
     arbitrum |-> "https://arbitrum.hypersync.xyz",
     base |-> "https://base.hypersync.xyz",
     polygon |-> "https://polygon.hypersync.xyz",
     optimism |-> "https://optimism.hypersync.xyz",
     bsc |-> "https://bsc.hypersync.xyz",
     avalanche |-> "https://avalanche.hypersync.xyz",
     gnosis |-> "https://gnosis.hypersync.xyz",
     linea |-> "https://linea.hypersync.xyz",
     scroll |-> "https://scroll.hypersync.xyz"]

\* x.toLowerCase() on a value that is no string
NotLowerCasable(x, what) ==
    IF x.t \in {"null", "undefined"}
    THEN Throw("TypeError", <<"Cannot read properties of ", ToStr(x), " (reading 'toLowerCase')">>)
    ELSE Throw("TypeError", <<what, ".toLowerCase is not a function">>)

getEndpoint(network) ==
    IF network.t # "string" THEN NotLowerCasable(network, "network")
    ELSE LET key == LowerCase(network.s)
         IN IF key \in DOMAIN EndpointMap THEN Str(EndpointMap[key])
            ELSE IF key \in InheritedKeys THEN Inherited(key)
            ELSE Str("https://eth.hypersync.xyz")

\* x?.k
OptGet(x, k) == IF x.t \in {"null", "undefined"} THEN Undefined ELSE Get(x, k)
\* x[0]
First(x) == IF x.t = "array" /\ x.items # <<>> THEN x.items[1] ELSE Undefined

LogFieldSelection ==
    Obj(<<Field("log", Arr(<<Str("LogField.Address"), Str("LogField.Topic0"),
                             Str("LogField.Topic1"), Str("LogField.Topic2"),
                             Str("LogField.Topic3"), Str("LogField.Data"),
                             Str("LogField.BlockNumber"), Str("LogField.TransactionIndex"),
                             Str("LogField.LogIndex"), Str("LogField.TransactionHash")>>)),
          Field("block", Arr(<<Str("BlockField.Number"), Str("BlockField.Timestamp"),
                               Str("BlockField.Hash")>>))>>)

TransactionFieldSelection ==
    Obj(<<Field("transaction", Arr(<<Str("TransactionField.Hash"), Str("TransactionField.From"),
                                     Str("TransactionField.To"), Str("TransactionField.Value"),
                                     Str("TransactionField.Gas"), Str("TransactionField.GasPrice"),
                                     Str("TransactionField.BlockNumber"),
                                     Str("TransactionField.TransactionIndex"),
                                     Str("TransactionField.Input")>>)),
          Field("block", Arr(<<Str("BlockField.Number"), Str("BlockField.Timestamp")>>))>>)

\* if (x) query[k] = x
Optional(k, x) == IF Truthy(x) THEN <<Field(k, x)>> ELSE <<>>

\* the log selection of queryLogs and of buildQuery
LogSelection(addresses, topics) ==
    IF Truthy(addresses) \/ Truthy(topics)
    THEN Arr(<<Obj(Optional("address", addresses)
                   \o (IF Truthy(topics)
                       THEN <<Field("topics", IF First(topics).t = "array"
                                              THEN topics ELSE Arr(<<topics>>))>>
                       ELSE <<>>))>>)
    ELSE Arr(<<Obj(<<>>)>>)

\* the transaction selection of queryTransactions and of buildQuery
TransactionSelection(from, to) ==
    IF Truthy(from) \/ Truthy(to)
    THEN Arr((IF Truthy(from) THEN <<Obj(<<Field("from", Arr(<<from>>))>>)>> ELSE <<>>)
             \o (IF Truthy(to) THEN <<Obj(<<Field("to", Arr(<<to>>))>>)>> ELSE <<>>))
    ELSE Arr(<<Obj(<<>>)>>)

\* this.serializeBigInt(res.data?.logs || []), and so for blocks and transactions
PageRecords(res, kind) == serializeBigInt(Or(OptGet(Get(res, "data"), kind), Arr(<<>>)))

queryLogsFailed(message, endpoint) ==
    Return(ErrResult(<<"Query failed: ">> \o message
        \o <<"\n\n**Troubleshooting:**\n- Endpoint: ", ToStr(endpoint),
             "\n- Check address format (0x...)\n- Reduce block range\n- Try smaller max_num_logs">>))

queryLogs(args, rep) ==
    IF DestructureFails(args) THEN Raise(DestructureError("network"))
    ELSE
    LET network == Get(args, "network")
        endpoint == getEndpoint(network)
        query == Obj(<<Field("fromBlock", Or(Get(args, "from_block"), Num(0))),
                       Field("fieldSelection", LogFieldSelection)>>
                     \o Optional("toBlock", Get(args, "to_block"))
                     \o Optional("maxNumLogs", Get(args, "max_num_logs"))
                     \o <<Field("logs", LogSelection(Get(args, "addresses"), Get(args, "topics")))>>)
    IN IF IsThrow(endpoint) THEN Raise(endpoint)
       ELSE IF rep = NoReply THEN Await(Stream(endpoint, query))
       ELSE IF ~rep.ok THEN queryLogsFailed(rep.message, endpoint)
       ELSE IF ~Truthy(rep.res) THEN Return(ErrResult(<<"No data received from stream">>))
       ELSE
       LET res == rep.res
           logs == PageRecords(res, "logs")
           blocks == PageRecords(res, "blocks")
           sample == JsonStringify(Arr(Slice(logs.items, 3)))
       IN IF Len(logs.items) > 0 /\ IsThrow(sample)
          THEN queryLogsFailed(sample.message, endpoint)
          ELSE Return(OkResult(
                <<"Query successful!\n\n", "**Network:** ", ToStr(network),
                  "\n**Endpoint:** ", ToStr(endpoint),
                  "\n**Logs found:** ", ToStr(Length(logs)),
                  "\n**Blocks processed:** ", ToStr(Length(blocks)),
                  "\n**Next block:** ", ToStr(Get(res, "nextBlock")), "\n">>
                \o (IF Truthy(Get(res, "archiveHeight"))
                    THEN <<"**Archive height:** ", ToStr(Get(res, "archiveHeight")), "\n">>
                    ELSE <<>>)
                \o (IF Len(logs.items) > 0
                    THEN <<"\n**Sample logs (first 3):**\n'''json\n", sample.s, "\n'''\n">>
                    ELSE <<"\n**Note:** No logs found in this range.">>)
                \o <<"\n\n**Pagination:** To continue, use 'from_block: ",
                     ToStr(Get(res, "nextBlock")), "'">>))

queryTransactionsFailed(message, stack) ==
    Return(ErrResult(<<"Error: ">> \o message \o <<"\n\n**Stack:** ">> \o stack))

queryTransactions(args, rep) ==
    IF DestructureFails(args) THEN Raise(DestructureError("network"))
    ELSE
    LET network == Get(args, "network")
        endpoint == getEndpoint(network)
        query == Obj(<<Field("fromBlock", Or(Get(args, "from_block"), Num(0))),
                       Field("fieldSelection", TransactionFieldSelection)>>
                     \o Optional("toBlock", Get(args, "to_block"))
                     \o Optional("maxNumTransactions", Get(args, "max_num_transactions"))
                     \o <<Field("transactions",
                                TransactionSelection(Get(args, "from_address"),
                                                     Get(args, "to_address")))>>)
    IN IF IsThrow(endpoint) THEN Raise(endpoint)
       ELSE IF rep = NoReply THEN Await(Stream(endpoint, query))
       ELSE IF ~rep.ok THEN queryTransactionsFailed(rep.message, rep.stack)
       ELSE IF ~Truthy(rep.res) THEN Return(ErrResult(<<"No data received from stream">>))
       ELSE
       LET res == rep.res
           txs == PageRecords(res, "transactions")
           sample == JsonStringify(Arr(Slice(txs.items, 3)))
       IN IF Len(txs.items) > 0 /\ IsThrow(sample)
          THEN queryTransactionsFailed(sample.message,
                                       <<"TypeError: ">> \o sample.message
                                           \o <<"\n    at JSON.stringify">>)
          ELSE Return(OkResult(
                <<"Found ", ToStr(Length(txs)), " transactions\n\n",
                  "**Network:** ", ToStr(network),
                  "\n**Next block:** ", ToStr(Get(res, "nextBlock")), "\n">>
                \o (IF Truthy(Get(res, "archiveHeight"))
                    THEN <<"**Archive height:** ", ToStr(Get(res, "archiveHeight")), "\n">>
                    ELSE <<>>)
                \o (IF Len(txs.items) > 0
                    THEN <<"\n**Sample (first 3):**\n'''json\n", sample.s, "\n'''">>
                    ELSE <<"\n**Note:** No transactions in this range.">>)))

buildQuery(args) ==
    IF DestructureFails(args) THEN Raise(DestructureError("query_type"))
    ELSE
    LET query_type == Get(args, "query_type")
        from_block == Get(args, "from_block")
        to_block == Get(args, "to_block")
        filters == Get(args, "filters")
        field_selection == Get(args, "field_selection")
        head == <<Field("fromBlock", Or(from_block, Or(OptGet(filters, "from_block"), Num(0))))>>
                \o (IF Truthy(to_block) \/ Truthy(OptGet(filters, "to_block"))
                    THEN <<Field("toBlock", Or(to_block, Get(filters, "to_block")))>>
                    ELSE <<>>)
        query ==
            CASE query_type = Str("logs") ->
                    Obj(head
                        \o <<Field("fieldSelection",
                                   Obj(<<Field("log", Or(OptGet(field_selection, "log"),
                                         Arr(<<Str("LogField.Address"), Str("LogField.Data"),
                                               Str("LogField.Topic0")>>)))>>)),
                             Field("logs", LogSelection(OptGet(filters, "addresses"),
                                                        OptGet(filters, "topics")))>>)
              [] query_type = Str("transactions") ->
                    Obj(head
                        \o <<Field("fieldSelection",
                                   Obj(<<Field("transaction",
                                         Or(OptGet(field_selection, "transaction"),
                                         Arr(<<Str("TransactionField.Hash"),
                                               Str("TransactionField.From"),
                                               Str("TransactionField.To"),
                                               Str("TransactionField.Value")>>)))>>)),
                             Field("transactions",
                                   TransactionSelection(OptGet(filters, "from"),
                                                        OptGet(filters, "to")))>>)
              [] query_type = Str("blocks") ->
                    Obj(head
                        \o <<Field("fieldSelection",
                                   Obj(<<Field("block", Or(OptGet(field_selection, "block"),
                                         Arr(<<Str("BlockField.Number"),
                                               Str("BlockField.Timestamp")>>)))>>)),
                             Field("includeAllBlocks", Bool(TRUE))>>)
              [] OTHER -> Obj(head \o <<Field("fieldSelection", Obj(<<>>))>>)
        json == JsonStringify(query)
    IN IF IsThrow(json) THEN Raise(json)
       ELSE Return(OkResult(
            <<"Query built:\n\n'''json\n", json.s,
              "\n'''\n\n**Important:**\n- Empty array '[]' = NO results\n- Empty object '[{}]' = ALL results\n- Filters = FILTERED results\n\n**Usage:**\n'''typescript\n",
              "import { HypersyncClient } from \"@envio-dev/hypersync-client\";\n\nconst client = HypersyncClient.new({ url: \"https://eth.hypersync.xyz\" });\n\nconst query = ",
              json.s,
              ";\n\nconst stream = await client.stream(query, {});\nconst res = await stream.recv();\n\nconsole.log(\"Data:\", res.data);\nconsole.log(\"Next block:\", res.nextBlock);",
              "\n'''">>))

NetworkEntry(key, url, name, chainId) ==
    [key |-> key, url |-> url, name |-> name, chainId |-> chainId]

\* the networks table of getNetworkEndpoint, in the order it is written
NetworkTable ==
    << NetworkEntry("ethereum", "https://eth.hypersync.xyz", "Ethereum Mainnet", 1),
       NetworkEntry("arbitrum", "https://arbitrum.hypersync.xyz", "Arbitrum One", 42161),
       NetworkEntry("base", "https://base.hypersync.xyz", "Base", 8453),
       NetworkEntry("optimism", "https://optimism.hypersync.xyz", "Optimism", 10),
       NetworkEntry("polygon", "https://polygon.hypersync.xyz", "Polygon", 137),
       NetworkEntry("bsc", "https://bsc.hypersync.xyz", "BSC", 56),
       NetworkEntry("avalanche", "https://avalanche.hypersync.xyz", "Avalanche", 43114),
       NetworkEntry("gnosis", "https://gnosis.hypersync.xyz", "Gnosis Chain", 100),
       NetworkEntry("linea", "https://linea.hypersync.xyz", "Linea", 59144),
       NetworkEntry("scroll", "https://scroll.hypersync.xyz", "Scroll", 534352) >>

\* Object.entries(networks).map(...).join("\n")
RECURSIVE SupportedLines(_)
SupportedLines(entries) ==
    IF entries = <<>> THEN <<>>
    ELSE <<"- **", Head(entries).key, "**: ", Head(entries).name,
           " (", NumberToString(Head(entries).chainId), ")">>
         \o (IF Len(entries) > 1 THEN <<"\n">> ELSE <<>>)
         \o SupportedLines(Tail(entries))

EndpointFound(name, chainId, url) ==
    Return(OkResult(<<"**", name, "** (Chain ID: ", chainId, ")\n\n**URL:** ", url,
        "\n\n**Usage:**\n'''typescript\nimport { HypersyncClient } from \"@envio-dev/hypersync-client\";\n\nconst client = HypersyncClient.new({\n  url: \"",
        url, "\"\n});\n'''">>))

getNetworkEndpoint(args) ==
    IF DestructureFails(args) THEN Raise(DestructureError("network_name"))
    ELSE
    LET network_name == Get(args, "network_name")
        key == IF network_name.t = "string" THEN LowerCase(network_name.s) ELSE "undefined"
    IN IF network_name.t \notin {"string", "null", "undefined"}
       THEN Raise(Throw("TypeError", <<"network_name?.toLowerCase is not a function">>))
       ELSE IF \E i \in DOMAIN NetworkTable : NetworkTable[i].key = key
       THEN LET network == NetworkTable[CHOOSE i \in DOMAIN NetworkTable :
                                           NetworkTable[i].key = key]
            IN EndpointFound(network.name, NumberToString(network.chainId), network.url)
       ELSE IF key = "constructor"
       THEN EndpointFound("Object", "undefined", "undefined")
       ELSE IF key = "__proto__"
       THEN EndpointFound("undefined", "undefined", "undefined")
       ELSE Return(ErrResult(<<"Network \"", ToStr(network_name),
                               "\" not found.\n\n**Supported:**\n">>
                             \o SupportedLines(NetworkTable)))

\* HyperSyncTools.executeTool
HyperSyncExecuteTool(full, args, rep) ==
    CASE full = "hypersync_query_logs" -> queryLogs(args, rep)
      [] full = "hypersync_query_transactions" -> queryTransactions(args, rep)
      [] full = "hypersync_build_query" -> buildQuery(args)
      [] full = "hypersync_get_network_endpoint" -> getNetworkEndpoint(args)
      [] OTHER -> Raise(Throw("Error", <<"Unknown tool: ", full>>))

-----------------------------------------------------------------------------
(* DocumentationTools *)

searchDocs(args) ==
    IF DestructureFails(args) THEN Raise(DestructureError("query"))
    ELSE Return(OkResult(<<"Documentation search results:\n\n",
                           "Search results for \"", ToStr(Get(args, "query")), "\" in ",
                           ToStr(Or(Get(args, "doc_type"), Str("all"))), " docs...">>))

\* obj[key] || fallback on an object literal of strings
Lookup(table, key, fallback) ==
    IF key \in DOMAIN table THEN table[key]
    ELSE IF key \in InheritedKeys THEN ToStr(Inherited(key))
    ELSE fallback

ConfigParams ==
    [networks |-> "Array of network configurations with id, start_block, and contracts",
     unorderedmultichainmode |->
        "Boolean - enables unordered multichain mode for better performance",
     contracts |-> "Array of contract definitions with name, handler, events, and addresses",
     startblock |-> "Number - block to start indexing from"]

getConfigReference(args) ==
    IF DestructureFails(args) THEN Raise(DestructureError("parameter"))
    ELSE LET parameter == ToStr(Get(args, "parameter"))
         IN Return(OkResult(<<"Config parameter: ", parameter, "\n\n",
                              Lookup(ConfigParams, parameter, "Parameter not found")>>))

Examples ==
    ("erc20-transfers" :>
        "// ERC20 Transfer Event Handler Example\nTransfer.handler(async ({ event, context }) => {\n  const transfer = {\n    id: '${event.transaction.hash}-${event.logIndex}',\n    from: event.params.from,\n    to: event.params.to,\n    value: event.params.value,\n    timestamp: event.block.timestamp,\n  };\n  \n  await context.Transfer.set(transfer);\n});")
    @@ ("factory-pattern" :>
        "// Factory Pattern with Dynamic Registration\nFactory.ContractCreated.handler(async ({ event, context }) => {\n  const newContract = event.params.contractAddress;\n  \n  // Register the new contract\n  context.contractRegistration.addChildContract(newContract);\n  \n  // Store factory info\n  await context.FactoryContract.set({\n    id: newContract,\n    creator: event.params.creator,\n    timestamp: event.block.timestamp,\n  });\n});")

getExamples(args) ==
    IF DestructureFails(args) THEN Raise(DestructureError("use_case"))
    ELSE LET use_case == ToStr(Get(args, "use_case"))
         IN Return(OkResult(<<"Example: ", use_case, "\n\n'''typescript\n",
                              Lookup(Examples, use_case, "Example not found"), "\n'''">>))

\* error_message.includes(pattern) on the error messages of the model
Includes(message, pattern) ==
    <<message, pattern>> \in
        { <<"ENVIO_API_TOKEN is not set", "ENVIO_">>,
          <<"ENVIO_RPC missing for network 1", "ENVIO_">>,
          <<"ENVIO_RPC missing for network 1", "network">>,
          <<"codegen failed on network 1", "codegen">>,
          <<"codegen failed on network 1", "network">>,
          <<"unknown network", "network">>,
          <<"Codegen crashed", "odegen">> }

\* the rules tried from the last to the first
troubleshootErrorLastRuleFirst(args) ==
    IF DestructureFails(args) THEN Raise(DestructureError("error_message"))
    ELSE
    LET error_message == Get(args, "error_message")
        solution ==
            IF Includes(error_message.s, "network")
            THEN "Check network ID and start_block in config.yaml. Verify network is supported."
            ELSE IF Includes(error_message.s, "codegen")
            THEN "Run 'npx envio codegen' to regenerate types after config changes."
            ELSE IF Includes(error_message.s, "ENVIO_")
            THEN "Environment variable missing. Ensure all ENVIO_* variables are set in .env file."
            ELSE "Unable to identify error. Please check Envio docs or Discord."
    IN IF error_message.t # "string"
       THEN Raise(Throw("TypeError", <<"error_message.includes is not a function">>))
       ELSE Return(OkResult(<<"Troubleshooting:\n\nError: ", error_message.s,
                              "\n\nSolution: ", solution>>))

troubleshootError(args) ==
    IF DestructureFails(args) THEN Raise(DestructureError("error_message"))
    ELSE
    LET error_message == Get(args, "error_message")
        solution ==
            IF Includes(error_message.s, "ENVIO_")
            THEN "Environment variable missing. Ensure all ENVIO_* variables are set in .env file."
            ELSE IF Includes(error_message.s, "codegen")
            THEN "Run 'npx envio codegen' to regenerate types after config changes."
            ELSE IF Includes(error_message.s, "network")
            THEN "Check network ID and start_block in config.yaml. Verify network is supported."
            ELSE "Unable to identify error. Please check Envio docs or Discord."
    IN IF error_message.t \in {"null", "undefined"}
       THEN Raise(Throw("TypeError", <<"Cannot read properties of ", ToStr(error_message),
                                       " (reading 'includes')">>))
       ELSE IF error_message.t # "string"
       THEN Raise(Throw("TypeError", <<"error_message.includes is not a function">>))
       ELSE Return(OkResult(<<"Troubleshooting:\n\nError: ", error_message.s,
                              "\n\nSolution: ", solution>>))

\* DocumentationTools.executeTool
DocExecuteTool(full, args, rep) ==
    CASE full = "docs_search" -> searchDocs(args)
      [] full = "docs_get_config_reference" -> getConfigReference(args)
      [] full = "docs_get_examples" -> getExamples(args)
      [] full = "docs_troubleshoot_error" -> troubleshootError(args)
      [] OTHER -> Raise(Throw("Error", <<"Unknown tool: ", full>>))

-----------------------------------------------------------------------------
(* ConfigTools *)

\* the scalars yaml.stringify writes between quotes, among those of the model
YamlScalar(v) ==
    CASE v.t = "string" ->
            IF v.s \in {"", "255", "true", "false", "null"} THEN "\"" \o v.s \o "\"" ELSE v.s
      [] v.t = "array" -> "[]"
      [] v.t = "object" -> "{}"
      [] OTHER -> ToStr(v)

IsCollection(v) ==
    \/ v.t = "array" /\ v.items # <<>>
    \/ v.t = "object" /\ v.fields # <<>>

\* the lines of a non-empty collection in block style: the first line opens with
\* first, the others with rest
RECURSIVE YamlLines(_, _, _)
RECURSIVE YamlEntries(_, _, _, _)
YamlEntries(v, i, first, rest) ==
    IF i > (IF v.t = "array" THEN Len(v.items) ELSE Len(v.fields)) THEN <<>>
    ELSE LET pre == IF i = 1 THEN first ELSE rest
             here ==
                IF v.t = "array"
                THEN IF IsCollection(v.items[i])
                     THEN YamlLines(v.items[i], pre \o "- ", rest \o "  ")
                     ELSE <<pre \o "- " \o YamlScalar(v.items[i])>>
                ELSE IF v.fields[i].v = Undefined THEN <<>>
                ELSE IF IsCollection(v.fields[i].v)
                     THEN <<pre \o v.fields[i].k \o ":">>
                          \o YamlLines(v.fields[i].v, rest \o "  ", rest \o "  ")
                     ELSE <<pre \o v.fields[i].k \o ": " \o YamlScalar(v.fields[i].v)>>
         IN here \o YamlEntries(v, i + 1, first, rest)
YamlLines(v, first, rest) == YamlEntries(v, 1, first, rest)

RECURSIVE Unlines(_)
Unlines(lines) == IF lines = <<>> THEN "" ELSE Head(lines) \o "\n" \o Unlines(Tail(lines))

\* yaml.stringify(value)
YamlStringify(v) ==
    IF IsCollection(v) THEN Unlines(YamlLines(v, "", "")) ELSE YamlScalar(v) \o "\n"

createTemplate(args) ==
    IF DestructureFails(args) THEN Raise(DestructureError("project_name"))
    ELSE
    LET template ==
            Obj(<<Field("name", Get(args, "project_name")),
                  Field("networks",
                        Or(Get(args, "networks"),
                           Arr(<<Obj(<<Field("id", Num(1)), Field("start_block", Num(0)),
                                       Field("contracts", Arr(<<>>))>>)>>))),
                  Field("contracts", Arr(<<>>))>>)
    IN Return(OkResult(<<"Config template:\n\n'''yaml\n", YamlStringify(template), "\n'''">>))

addNetwork(args) == Return(OkResult(<<"Network added to config">>))

addContract(args) == Return(OkResult(<<"Contract added to config">>))

\* ConfigTools.executeTool
ConfigExecuteTool(full, args, rep) ==
    CASE full = "config_create_template" -> createTemplate(args)
      [] full = "config_add_network" -> addNetwork(args)
      [] full = "config_add_contract" -> addContract(args)
      [] OTHER -> Raise(Throw("Error", <<"Unknown tool: ", full>>))

-----------------------------------------------------------------------------
(* The HyperSyncTools class of unnamed/part_000.  The repository holds two  *)
(* files that export a HyperSyncTools; the dispatcher imports the class     *)
(* from "./tools/hypersync.js" relative to its own, unknown, directory, so   *)
(* the server runs with one or the other (hypersyncModule).                 *)

HyperSyncModules == {"src/tools/hypersync.ts", "unnamed/part_000"}

EndpointMapPart000 ==
    [ethereum |-> "http://eth.hypersync.xyz",
     arbitrum |-> "http://arbitrum.hypersync.xyz",
     base |-> "http://base.hypersync.xyz",
     polygon |-> "http://polygon.hypersync.xyz",
     optimism |-> "http://optimism.hypersync.xyz"]

getEndpointPart000(network) ==
    IF network.t # "string" THEN NotLowerCasable(network, "network")
    ELSE LET key == LowerCase(network.s)
         IN IF key \in DOMAIN EndpointMapPart000 THEN Str(EndpointMapPart000[key])
            ELSE IF key \in InheritedKeys THEN Inherited(key)
            ELSE Str("http://eth.hypersync.xyz")

\* res?.data?.logs || [], handed to the text as the client returned it
PageRecordsPart000(res, kind) == Or(OptGet(OptGet(res, "data"), kind), Arr(<<>>))

queryLogsPart000(args, rep) ==
    IF DestructureFails(args) THEN Raise(DestructureError("network"))
    ELSE
    LET endpoint == getEndpointPart000(Get(args, "network"))
        query == Obj(<<Field("fromBlock", Or(Get(args, "from_block"), Num(0))),
                       Field("logs", Arr(<<Obj(<<Field("address", Get(args, "addresses")),
                                                 Field("topics", Get(args, "topics"))>>)>>)),
                       Field("fieldSelection",
                             Obj(<<Field("log",
                                 Arr(<<Str("LogField.Address"), Str("LogField.Topic0"),
                                       Str("LogField.Topic1"), Str("LogField.Topic2"),
                                       Str("LogField.Topic3"), Str("LogField.Data"),
                                       Str("LogField.BlockNumber"),
                                       Str("LogField.TransactionIndex"),
                                       Str("LogField.LogIndex")>>))>>))>>
                     \o Optional("toBlock", Get(args, "to_block")))
        queryFailed(message) ==
            Return(ErrResult(<<"Query failed: ">> \o message
                \o <<"\n\n**Troubleshooting:**\n- Verify endpoint: ", ToStr(endpoint),
                     "\n- Check API token\n- Validate address format (0x...)\n- Ensure block range is reasonable">>))
    IN IF IsThrow(endpoint) THEN Raise(endpoint)
       ELSE IF rep = NoReply THEN Await(Stream(endpoint, query))
       ELSE IF ~rep.ok THEN queryFailed(rep.message)
       ELSE
       LET logs == PageRecordsPart000(rep.res, "logs")
           sample == JsonStringify(Arr(Slice(logs.items, 3)))
       IN IF IsThrow(sample) THEN queryFailed(sample.message)
          ELSE Return(OkResult(
                <<"Query successful!\n\n**Results:**\n- Logs found: ", ToStr(Length(logs)),
                  "\n- Next block: ", ToStr(OptGet(rep.res, "nextBlock")),
                  "\n\n**Sample logs:**\n'''json\n", sample.s,
                  "\n'''\n\n**Note:** Use stream.recv() in a loop for continuous processing.">>))

queryTransactionsPart000(args, rep) ==
    IF DestructureFails(args) THEN Raise(DestructureError("network"))
    ELSE
    LET endpoint == getEndpointPart000(Get(args, "network"))
        from_address == Get(args, "from_address")
        to_address == Get(args, "to_address")
        transactions ==
            Arr((IF Truthy(from_address)
                 THEN <<Obj(<<Field("from", Arr(<<from_address>>))>>)>> ELSE <<>>)
                \o (IF Truthy(to_address)
                    THEN <<Obj(<<Field("to", Arr(<<to_address>>))>>)>> ELSE <<>>))
        query == Obj(<<Field("fromBlock", Or(Get(args, "from_block"), Num(0))),
                       Field("transactions", transactions),
                       Field("fieldSelection",
                             Obj(<<Field("transaction",
                                 Arr(<<Str("TransactionField.Hash"),
                                       Str("TransactionField.From"),
                                       Str("TransactionField.To"),
                                       Str("TransactionField.Value"),
                                       Str("TransactionField.BlockNumber")>>))>>))>>
                     \o Optional("toBlock", Get(args, "to_block")))
    IN IF IsThrow(endpoint) THEN Raise(endpoint)
       ELSE IF rep = NoReply THEN Await(Stream(endpoint, query))
       ELSE IF ~rep.ok THEN Return(ErrResult(<<"Error: ">> \o rep.message))
       ELSE
       LET txs == PageRecordsPart000(rep.res, "transactions")
           sample == JsonStringify(Arr(Slice(txs.items, 3)))
       IN IF IsThrow(sample) THEN Return(ErrResult(<<"Error: ">> \o sample.message))
          ELSE Return(OkResult(
                <<"Found ", ToStr(Length(txs)), " transactions\n\n**Next block:** ",
                  ToStr(OptGet(rep.res, "nextBlock")),
                  "\n\n**Sample transactions:**\n'''json\n", sample.s, "\n'''">>))

buildQueryPart000(args) ==
    IF DestructureFails(args) THEN Raise(DestructureError("query_type"))
    ELSE
    LET query_type == Get(args, "query_type")
        filters == Get(args, "filters")
        field_selection == Get(args, "field_selection")
        head == <<Field("fromBlock", Or(OptGet(filters, "from_block"), Num(0)))>>
                \o Optional("toBlock", OptGet(filters, "to_block"))
        query ==
            CASE query_type = Str("logs") ->
                    Obj(head
                        \o <<Field("logs",
                                   Arr(<<Obj(<<Field("address", OptGet(filters, "addresses")),
                                               Field("topics", OptGet(filters, "topics"))>>)>>)),
                             Field("fieldSelection",
                                   Obj(<<Field("log", Or(OptGet(field_selection, "log"),
                                         Arr(<<Str("LogField.Address"), Str("LogField.Data"),
                                               Str("LogField.Topic0")>>)))>>))>>)
              [] query_type = Str("transactions") ->
                    Obj(head
                        \o <<Field("transactions",
                                   Arr((IF Truthy(OptGet(filters, "from"))
                                        THEN <<Obj(<<Field("from",
                                                     Arr(<<Get(filters, "from")>>))>>)>>
                                        ELSE <<>>)
                                       \o (IF Truthy(OptGet(filters, "to"))
                                           THEN <<Obj(<<Field("to",
                                                        Arr(<<Get(filters, "to")>>))>>)>>
                                           ELSE <<>>))),
                             Field("fieldSelection",
                                   Obj(<<Field("transaction",
                                         Or(OptGet(field_selection, "transaction"),
                                         Arr(<<Str("TransactionField.Hash"),
                                               Str("TransactionField.From"),
                                               Str("TransactionField.To")>>)))>>))>>)
              [] query_type = Str("blocks") ->
                    Obj(head
                        \o <<Field("fieldSelection",
                                   Obj(<<Field("block", Or(OptGet(field_selection, "block"),
                                         Arr(<<Str("BlockField.Number"),
                                               Str("BlockField.Timestamp")>>)))>>))>>)
              [] OTHER -> Obj(head)
        json == JsonStringify(query)
    IN IF IsThrow(json) THEN Raise(json)
       ELSE Return(OkResult(
            <<"Query built:\n\n'''json\n", json.s,
              "\n'''\n\n**Join Modes (optional):**\n- **Default:** Returns logs -> transactions -> blocks\n- **JoinAll:** Returns comprehensive related data\n- **JoinNothing:** Only exact matches\n\n**Usage:**\n'''typescript\nimport { HypersyncClient } from \"@envio-dev/hypersync-client\";\n\nconst client = HypersyncClient.new({ url: \"http://eth.hypersync.xyz\" });\nconst stream = await client.stream(query, {});\nconst res = await stream.recv();\n'''">>))

getNetworkEndpointPart000(args) ==
    IF DestructureFails(args) THEN Raise(DestructureError("network_name"))
    ELSE
    LET network_name == Get(args, "network_name")
        chain_id == Get(args, "chain_id")
        key == IF network_name.t = "string" THEN LowerCase(network_name.s) ELSE "undefined"
        networks == [n \in DOMAIN EndpointMapPart000 \cup {"bsc"} |->
                        IF n = "bsc" THEN "http://bsc.hypersync.xyz"
                        ELSE EndpointMapPart000[n]]
        endpoint ==
            IF key \in DOMAIN networks THEN networks[key]
            ELSE IF key \in InheritedKeys THEN ToStr(Inherited(key))
            ELSE IF Truthy(chain_id) THEN "http://" \o ToStr(chain_id) \o ".hypersync.xyz"
            ELSE "http://eth.hypersync.xyz"
    IN IF network_name.t \notin {"string", "null", "undefined"}
       THEN Raise(Throw("TypeError", <<"network_name?.toLowerCase is not a function">>))
       ELSE Return(OkResult(
            <<"HyperSync endpoint: **", endpoint,
              "**\n\n**Usage:**\n'''typescript\nimport { HypersyncClient } from \"@envio-dev/hypersync-client\";\n\nconst client = HypersyncClient.new({\n  url: \"",
              endpoint,
              "\",\n  bearerToken: process.env.HYPERSYNC_API_TOKEN\n});\n'''\n\n**Supported Networks:** 70+ EVM chains\n**Get API Token:** https://envio.dev/app/api-tokens">>))

\* HyperSyncTools.executeTool of unnamed/part_000
HyperSyncExecuteToolPart000(full, args, rep) ==
    CASE full = "hypersync_query_logs" -> queryLogsPart000(args, rep)
      [] full = "hypersync_query_transactions" -> queryTransactionsPart000(args, rep)
      [] full = "hypersync_build_query" -> buildQueryPart000(args)
      [] full = "hypersync_get_network_endpoint" -> getNetworkEndpointPart000(args)
      [] OTHER -> Raise(Throw("Error", <<"Unknown tool: ", full>>))

-----------------------------------------------------------------------------
(* The dispatcher: the CallTool and ListTools request handlers of index.ts *)

\* the codes of the SDK's ErrorCode that index.ts and the claims speak of
ErrorCode == [MethodNotFound |-> -32601, InvalidParams |-> -32602, InternalError |-> -32603]

\* new McpError(code, message): the SDK prefixes the message with the code
McpError(code, message) ==
    [t |-> "throw", name |-> "McpError", code |-> code,
     message |-> <<"MCP error ", NumberToString(code), ": ">> \o message]

\* the body of the try: the call goes to the group that claims the prefix
Route(name, args, rep) ==
    IF StartsWith(name, "hyperindex_") THEN HyperIndexExecuteTool(FullName(name), args, rep)
    ELSE IF StartsWith(name, "hypersync_")
    THEN IF hypersyncModule = "unnamed/part_000"
         THEN HyperSyncExecuteToolPart000(FullName(name), args, rep)
         ELSE HyperSyncExecuteTool(FullName(name), args, rep)
    ELSE IF StartsWith(name, "docs_") THEN DocExecuteTool(FullName(name), args, rep)
    ELSE IF StartsWith(name, "config_") THEN ConfigExecuteTool(FullName(name), args, rep)
    ELSE Raise(McpError(ErrorCode.MethodNotFound, <<"Unknown tool: ", FullName(name)>>))

RewrapOpaque(error) ==
    \* a catch that keeps the original message to itself
    McpError(ErrorCode.InternalError, <<"Tool execution failed">>)

\* the catch: every exception the model throws is an instance of Error
Rewrap(error) ==
    McpError(ErrorCode.InternalError, <<"Tool execution failed: ">> \o error.message)

\* try { body } catch (error) { throw new McpError(...) }
TryCatch(body) == IF body.k = "throw" THEN Raise(Rewrap(body.exc)) ELSE body

CallToolHandlerLatched(name, args, rep) ==
    \* a handler that refuses every call once one call has failed
    IF failed THEN Raise(McpError(ErrorCode.InternalError, <<"Server is in a failed state">>))
    ELSE TryCatch(Route(name, args, rep))

\* server.setRequestHandler(CallToolRequestSchema, ...)
CallToolHandler(name, args, rep) == TryCatch(Route(name, args, rep))

\* what the caller gets: the ToolResult, or the error response the SDK makes of
\* the exception the handler threw
Outcome(step) ==
    IF step.k = "return" THEN [k |-> "result", result |-> step.result]
    ELSE [k |-> "error", code |-> step.exc.code, message |-> step.exc.message]

Failure(o) == o.k = "error" \/ IsError(o.result)

-----------------------------------------------------------------------------
(* The collaborators' replies *)

\* a page of the query client: records with big-integer fields, more than three
\* records, no records, no data
PageWith(records, next) ==
    Obj(<<Field("data", Obj(<<Field("logs", Arr(records)), Field("blocks", Arr(records)),
                              Field("transactions", Arr(records))>>)),
          Field("nextBlock", next), Field("archiveHeight", Num(21000000))>>)

BigRecord == Obj(<<Field("blockNumber", BigU64Max), Field("value", BigU128),
                   Field("address", Str("0xabc"))>>)
PlainRecord(i) == Obj(<<Field("blockNumber", Num(i)), Field("address", Str("0xabc"))>>)

Pages ==
    { PageWith(<<>>, Num(101)),
      PageWith(<<BigRecord>>, Num(101)),
      PageWith(<<PlainRecord(1), BigRecord>>, Num(101)),
      PageWith(<<PlainRecord(1), PlainRecord(2), PlainRecord(3), PlainRecord(4)>>, Num(5)),
      PageWith(<<PlainRecord(1), PlainRecord(2), PlainRecord(3), BigRecord>>, Num(5)),
      Obj(<<Field("nextBlock", Num(7))>>) }

ConfigFiles ==
    { "name: x\n", "networks: []\ncontracts: []\n",
      "name: x\nnetworks:\n  - id: 1\n    start_block: 0\ncontracts: []\n",
      "", "name: [x\n", "just text" }

\* the invocation a call is waiting on, if any
Awaited(c) == IF pc[c] = "awaiting" THEN invocations[c][1] ELSE [collab |-> "none"]

Replies(inv) ==
    CASE inv.collab = "subprocess" ->
            {ExecOk("done\n"), ExecFailed(inv.cmd, "envio: command not found\n", FALSE)}
            \cup (IF inv.timeout > 0 THEN {ExecFailed(inv.cmd, "", TRUE)} ELSE {})
      [] inv.collab = "client" ->
            {ClientOk(p) : p \in Pages} \cup {ClientOk(Undefined), ClientFailed("connect ECONNREFUSED")}
      [] inv.collab = "fs" ->
            {FileRead(content) : content \in ConfigFiles} \cup {FileMissing(inv.path)}
      [] OTHER -> {}

\* the replies of the interleaved specification: one success and one failure
ConcReplies(inv) ==
    CASE inv.collab = "subprocess" ->
            {ExecOk("done\n"), ExecFailed(inv.cmd, "envio: command not found\n", FALSE)}
      [] inv.collab = "client" ->
            {ClientOk(PageWith(<<BigRecord>>, Num(101))), ClientFailed("connect ECONNREFUSED")}
      [] inv.collab = "fs" -> {FileRead("name: x\n"), FileMissing(inv.path)}
      [] OTHER -> {}

-----------------------------------------------------------------------------
(* The requests of the model *)

Request(prefix, rest, args) == [name |-> ToolName(prefix, rest), args |-> args]

NoArgs == Obj(<<>>)

HyperIndexRequests ==
    { Request("hyperindex_", "init_project",
              Obj(<<Field("name", Str("my-indexer")), Field("language", Str("typescript"))>>)),
      Request("hyperindex_", "init_project", Obj(<<Field("language", Str("typescript"))>>)),
      Request("hyperindex_", "init_project", Undefined),
      Request("hyperindex_", "init_contract_import_explorer",
              Obj(<<Field("name", Str("my-indexer")), Field("contract_address", Str("0xabc")),
                    Field("blockchain", Str("ethereum-mainnet")),
                    Field("language", Str("typescript")), Field("all_events", Bool(TRUE))>>)),
      Request("hyperindex_", "init_contract_import_local",
              Obj(<<Field("name", Str("my-indexer")), Field("abi_file", Str("abi.json")),
                    Field("contract_name", Str("Token")), Field("contract_address", Str("0xabc")),
                    Field("blockchain", Str("ethereum-mainnet")),
                    Field("language", Str("typescript")), Field("start_block", Num(0))>>)),
      Request("hyperindex_", "init_contract_import_local",
              Obj(<<Field("name", Str("my-indexer")), Field("abi_file", Str("abi.json")),
                    Field("contract_name", Str("Token")),
                    Field("blockchain", Str("ethereum-mainnet")),
                    Field("language", Str("typescript")), Field("directory", Str("out"))>>)),
      Request("hyperindex_", "init_template",
              Obj(<<Field("name", Str("my-indexer")), Field("template", Str("erc20")),
                    Field("language", Str("typescript"))>>)),
      Request("hyperindex_", "dev", NoArgs),
      Request("hyperindex_", "dev", Undefined),
      Request("hyperindex_", "dev", Obj(<<Field("directory", Str("my-indexer"))>>)),
      Request("hyperindex_", "configure_multichain",
              Obj(<<Field("networks", Arr(<<Obj(<<Field("id", Num(1))>>),
                                            Obj(<<Field("id", Num(8453))>>)>>))>>)),
      Request("hyperindex_", "configure_multichain",
              Obj(<<Field("networks", Arr(<<Obj(<<Field("id", Num(1)),
                                                  Field("start_block", Num(100))>>)>>)),
                    Field("unordered_mode", Bool(FALSE))>>)),
      Request("hyperindex_", "configure_multichain",
              Obj(<<Field("networks", Arr(<<Obj(<<Field("id", Num(1))>>)>>)),
                    Field("unordered_mode", Bool(TRUE))>>)),
      Request("hyperindex_", "setup_dynamic_contracts",
              Obj(<<Field("factory_address", Str("0xabc")),
                    Field("event_name", Str("PairCreated"))>>)),
      Request("hyperindex_", "codegen", Obj(<<Field("directory", Str("my-indexer"))>>)),
      Request("hyperindex_", "start", Obj(<<Field("bench", Bool(TRUE))>>)),
      Request("hyperindex_", "stop", NoArgs),
      Request("hyperindex_", "local_docker_up", NoArgs),
      Request("hyperindex_", "local_docker_down", NoArgs),
      Request("hyperindex_", "local_db_migrate_setup", NoArgs),
      Request("hyperindex_", "benchmark_summary", NoArgs),
      Request("hyperindex_", "validate_config", NoArgs),
      Request("hyperindex_", "validate_config", Obj(<<Field("config_content", Str("name: x\n"))>>)),
      Request("hyperindex_", "validate_config",
              Obj(<<Field("config_content",
                          Str("name: x\nnetworks:\n  - id: 1\n    start_block: 0\ncontracts: []\n"))>>)),
      Request("hyperindex_", "validate_config",
              Obj(<<Field("config_content",
                          Str("name: x\nnetworks:\n  - start_block: 0\ncontracts: []\n"))>>)),
      Request("hyperindex_", "validate_config", Obj(<<Field("config_path", Str("config.yaml"))>>)),
      Request("hyperindex_", "generate_handler",
              Obj(<<Field("contract_name", Str("Token")), Field("event_name", Str("Transfer")),
                    Field("language", Str("typescript"))>>)),
      Request("hyperindex_", "generate_handler", NoArgs),
      Request("hyperindex_", "check_installation", Undefined),
      Request("hyperindex_", "import_contract",
              Obj(<<Field("address", Str("0xabc")), Field("blockchain", Str("ethereum-mainnet"))>>)) }

HyperSyncRequests ==
    { Request("hypersync_", "query_logs", Obj(<<Field("network", Str("base"))>>)),
      Request("hypersync_", "query_logs",
              Obj(<<Field("network", Str("Base")), Field("from_block", Num(100)),
                    Field("addresses", Arr(<<Str("0xabc")>>)), Field("max_num_logs", Num(10))>>)),
      Request("hypersync_", "query_logs", Obj(<<Field("network", Str("solana"))>>)),
      Request("hypersync_", "query_logs", NoArgs),
      Request("hypersync_", "query_transactions",
              Obj(<<Field("network", Str("ethereum")), Field("from_address", Str("0xabc"))>>)),
      Request("hypersync_", "query_transactions", NoArgs),
      Request("hypersync_", "query_transactions", Obj(<<Field("network", Str("ethereum"))>>)),
      Request("hypersync_", "query_transactions",
              Obj(<<Field("network", Str("ethereum")), Field("from_address", Str("0xabc")),
                    Field("to_address", Str("0xdef"))>>)),
      Request("hypersync_", "build_query", Obj(<<Field("query_type", Str("transactions"))>>)),
      Request("hypersync_", "build_query", Obj(<<Field("query_type", Str("logs"))>>)),
      Request("hypersync_", "build_query",
              Obj(<<Field("query_type", Str("transactions")), Field("to_block", Num(200)),
                    Field("filters", Obj(<<Field("from", Str("0xabc"))>>))>>)),
      Request("hypersync_", "build_query", NoArgs),
      Request("hypersync_", "get_network_endpoint", Obj(<<Field("network_name", Str("Base"))>>)),
      Request("hypersync_", "get_network_endpoint", Obj(<<Field("network_name", Str("solana"))>>)),
      Request("hypersync_", "get_network_endpoint",
              Obj(<<Field("network_name", Str("constructor"))>>)),
      Request("hypersync_", "get_network_endpoint", NoArgs),
      Request("hypersync_", "get_network_endpoint", Undefined),
      Request("hypersync_", "stream_events", Obj(<<Field("network", Str("base"))>>)) }

DocRequests ==
    { Request("docs_", "search", Obj(<<Field("query", Str("rpc"))>>)),
      Request("docs_", "search", NoArgs),
      Request("docs_", "get_config_reference", Obj(<<Field("parameter", Str("networks"))>>)),
      Request("docs_", "get_config_reference", Obj(<<Field("parameter", Str("rollback"))>>)),
      Request("docs_", "get_examples", Obj(<<Field("use_case", Str("erc20-transfers"))>>)),
      Request("docs_", "get_examples", Obj(<<Field("use_case", Str("constructor"))>>)),
      Request("docs_", "troubleshoot_error",
              Obj(<<Field("error_message", Str("ENVIO_API_TOKEN is not set"))>>)),
      Request("docs_", "troubleshoot_error",
              Obj(<<Field("error_message", Str("Codegen crashed"))>>)),
      Request("docs_", "troubleshoot_error",
              Obj(<<Field("error_message", Str("ENVIO_RPC missing for network 1"))>>)),
      Request("docs_", "troubleshoot_error",
              Obj(<<Field("error_message", Str("codegen failed on network 1"))>>)),
      Request("docs_", "troubleshoot_error",
              Obj(<<Field("error_message", Str("unknown network"))>>)),
      Request("docs_", "troubleshoot_error", NoArgs),
      Request("docs_", "read", NoArgs) }

ConfigRequests ==
    { Request("config_", "create_template", Obj(<<Field("project_name", Str("x"))>>)),
      Request("config_", "create_template",
              Obj(<<Field("project_name", Str("x")),
                    Field("networks", Arr(<<Obj(<<Field("id", Num(8453)),
                                                  Field("start_block", Num(0))>>)>>))>>)),
      Request("config_", "create_template", NoArgs),
      Request("config_", "add_network", NoArgs),
      Request("config_", "add_network",
              Obj(<<Field("config_path", Str("config.yaml")), Field("chain_id", Num(8453))>>)),
      Request("config_", "add_contract",
              Obj(<<Field("config_path", Str("config.yaml")),
                    Field("contract_name", Str("Token"))>>)),
      Request("config_", "add_contract", Obj(<<Field("name", Str("Token"))>>)),
      Request("config_", "remove_network", NoArgs) }

\* names that no group prefix claims
UnclaimedRequests ==
    { Request("nonexistent_", "tool", NoArgs), Request("", "ping", Undefined),
      Request("hyperindex", "", NoArgs) }

Requests ==
    HyperIndexRequests \cup HyperSyncRequests \cup DocRequests \cup ConfigRequests
        \cup UnclaimedRequests

\* the requests of the interleaved specification
ConcRequests ==
    { Request("nonexistent_", "tool", NoArgs),
      Request("hyperindex_", "benchmark_summary", NoArgs),
      Request("hypersync_", "query_logs", Obj(<<Field("network", Str("base"))>>)),
      Request("docs_", "search", Obj(<<Field("query", Str("rpc"))>>)),
      Request("hyperindex_", "validate_config", Obj(<<Field("config_path", Str("config.yaml"))>>)) }

-----------------------------------------------------------------------------
(* HyperIndexTools, the first class of hyperindex.ts: configureMultichain *)

\* networks.map(net => ({ id, start_block: net.start_block || 0, contracts: net.contracts || [] }))
MultichainNetworks(networks) ==
    Arr([i \in DOMAIN networks.items |->
            Obj(<<Field("id", Get(networks.items[i], "id")),
                  Field("start_block", Or(Get(networks.items[i], "start_block"), Num(0))),
                  Field("contracts", Or(Get(networks.items[i], "contracts"), Arr(<<>>)))>>)])

\* the config object of configureMultichain
MultichainConfig(networks, unordered_mode) ==
    Obj(<<Field("name", Str("multi-chain-indexer")),
          Field("unorderedmultichainmode", Or(unordered_mode, Bool(TRUE))),
          Field("networks", MultichainNetworks(networks))>>)

configureMultichain(args) ==
    IF DestructureFails(args) THEN Raise(DestructureError("networks"))
    ELSE
    LET networks == Get(args, "networks")
        unordered_mode == Get(args, "unordered_mode")
    IN IF networks.t \in {"null", "undefined"}
       THEN Raise(Throw("TypeError", <<"Cannot read properties of ", ToStr(networks),
                                       " (reading 'map')">>))
       ELSE IF networks.t # "array"
       THEN Raise(Throw("TypeError", <<"networks.map is not a function">>))
       ELSE Return(OkResult(
                <<"Multi-chain configuration:\n\n'''yaml\n",
                  YamlStringify(MultichainConfig(networks, unordered_mode)), "\n'''\n\n",
                  IF Truthy(unordered_mode)
                  THEN "Unordered mode: Better performance, events processed as they arrive"
                  ELSE "Ordered mode: Strict ordering across chains, slower sync">>))

-----------------------------------------------------------------------------
(* ConfigValidator of utils/validators.ts *)

\* config.networks.forEach((net, idx) => ...): the errors pushed for the entries from idx on
RECURSIVE NetworkErrors(_, _)
NetworkErrors(networks, idx) ==
    IF idx > Len(networks) THEN <<>>
    ELSE (IF ~Truthy(Get(networks[idx], "id"))
          THEN << <<"Network ", NumberToString(idx - 1), ": Missing 'id' field">> >> ELSE <<>>)
         \o (IF Get(networks[idx], "startblock") = Undefined
                /\ Get(networks[idx], "start_block") = Undefined
             THEN << <<"Network ", NumberToString(idx - 1), ": Missing 'startblock'">> >>
             ELSE <<>>)
         \o NetworkErrors(networks, idx + 1)

ValidationResult(errors, warnings) ==
    [valid |-> errors = <<>>, errors |-> errors, warnings |-> warnings]

\* ConfigValidator.validate
validate(configContent) ==
    LET config == YamlParse(configContent)
        networks == Get(config, "networks")
        errors ==
            (IF ~Truthy(Get(config, "name")) THEN << <<"Missing required field: name">> >>
             ELSE <<>>)
            \o (IF networks.t # "array" THEN << <<"Missing or invalid 'networks' array">> >>
                ELSE NetworkErrors(networks.items, 1))
        warnings ==
            IF Get(config, "unorderedmultichainmode") = Undefined
               /\ networks.t = "array" /\ Len(networks.items) > 1
            THEN << <<"Multi-chain setup: Consider setting unorderedmultichainmode to true for better performance">> >>
            ELSE <<>>
    IN IF IsThrow(config)
       THEN ValidationResult(<< <<"YAML parsing error: ">> \o config.message >>, <<>>)
       ELSE IF config.t \in {"null", "undefined"}
       THEN ValidationResult(<< <<"YAML parsing error: Cannot read properties of ",
                                  ToStr(config), " (reading 'name')">> >>, <<>>)
       ELSE ValidationResult(errors, warnings)

-----------------------------------------------------------------------------
(* Resources and startup *)

startVars == <<transport, consoleError, exitCode>>
resourceVars == <<resources, readResource>>

\* the request handlers run once main has connected the transport
Serving == transport = "connected" /\ running

NoResourceAnswer == resources = Undefined /\ readResource = Undefined

Resource(uri, name) == [uri |-> uri, name |-> name, mimeType |-> "text/markdown"]

ListResourcesResponse ==
    [resources |->
        << Resource("docs://hyperindex/overview", "HyperIndex Complete Documentation"),
           Resource("docs://hypersync/overview", "HyperSync Complete Documentation"),
           Resource("docs://hyperrpc/overview", "HyperRPC Complete Documentation") >>]

\* the docs literal of getResourceContent
ResourceDocs ==
    ("docs://hyperindex/overview" :> "HyperIndex documentation content...")
    @@ ("docs://hypersync/overview" :> "HyperSync documentation content...")
    @@ ("docs://hyperrpc/overview" :> "HyperRPC documentation content...")

\* DocumentationTools.getResourceContent: docs[uri] || "Documentation not found"
getResourceContent(uri) ==
    IF uri \in DOMAIN ResourceDocs THEN Str(ResourceDocs[uri])
    ELSE IF uri \in InheritedKeys THEN Inherited(uri)
    ELSE Str("Documentation not found")

ReadResourceHandler(uri) ==
    [contents |-> << [uri |-> uri, mimeType |-> "text/markdown",
                      text |-> getResourceContent(uri)] >>]

\* the URIs read in the model
ResourceUris ==
    { "docs://hyperindex/overview", "docs://hypersync/overview", "docs://hyperrpc/overview",
      "docs://hyperindex/quickstart", "constructor", "" }

\* main, after the connection: what it writes with console.error
main == << <<"Envio MCP Server running on stdio">> >>

\* a catch that logs the error and leaves the process alive
mainCatchLogOnly(error) == [logged |-> << <<"Fatal error:", error>> >>, exit |-> Undefined]

\* main().catch: what it writes with console.error and its process.exit status
mainCatch(error) == [logged |-> << <<"Fatal error:", error>> >>, exit |-> Num(1)]

\* the rejections of server.connect in the model
ConnectErrors == { "write EPIPE", "transport already started" }

\* the state once main has connected the transport
Started ==
    /\ transport = "connected"
    /\ consoleError = main
    /\ exitCode = Undefined

\* the state when main is at its await of server.connect
Starting ==
    /\ transport = "connecting"
    /\ consoleError = <<>>
    /\ exitCode = Undefined

-----------------------------------------------------------------------------
(* The steps of a call *)

\* the handler has run as far as it can without its collaborator's next reply:
\* body is what the try block did, step what the handler did with it
Advance(c, body, step) ==
    IF step.k = "await"
    THEN /\ pc' = [pc EXCEPT ![c] = "awaiting"]
         /\ invocations' = [invocations EXCEPT ![c] = Append(@, step.invocation)]
         /\ UNCHANGED <<raised, outcome, failed>>
    ELSE /\ pc' = [pc EXCEPT ![c] = "done"]
         /\ raised' = [raised EXCEPT ![c] = IF body.k = "throw" THEN body.exc ELSE Undefined]
         /\ outcome' = [outcome EXCEPT ![c] = Outcome(step)]
         /\ failed' = (failed \/ Failure(Outcome(step)))
         /\ UNCHANGED invocations

\* a tools/call request arrives and its handler runs up to its first await, or
\* to its end when it awaits no collaborator
CallTool(c, r) ==
    /\ Serving
    /\ NoResourceAnswer
    /\ pc[c] = "idle"
    /\ req' = [req EXCEPT ![c] = r]
    /\ after' = [after EXCEPT ![c] = failed]
    /\ reply' = [reply EXCEPT ![c] = NoReply]
    /\ Advance(c, Route(r.name, r.args, NoReply), CallToolHandler(r.name, r.args, NoReply))
    /\ UNCHANGED <<running, docs, listed, hypersyncModule, startVars, resourceVars,
                   val, out, out2, spc>>

\* the collaborator answers and the handler runs to its end; every: with any
\* reply of the model, or else with one of ConcReplies
CollaboratorReplies(c, every) ==
    /\ pc[c] = "awaiting"
    /\ \E rep \in (IF every THEN Replies(Awaited(c)) ELSE ConcReplies(Awaited(c))) :
          /\ reply' = [reply EXCEPT ![c] = rep]
          /\ Advance(c, Route(req[c].name, req[c].args, rep),
                     CallToolHandler(req[c].name, req[c].args, rep))
    /\ UNCHANGED <<req, after, running, docs, listed, hypersyncModule, startVars,
                   resourceVars, val, out, out2, spc>>

\* the response is sent and the slot is free for the next request
Respond(c) ==
    /\ pc[c] = "done"
    /\ pc' = [pc EXCEPT ![c] = "idle"]
    /\ req' = [req EXCEPT ![c] = Undefined]
    /\ reply' = [reply EXCEPT ![c] = Undefined]
    /\ invocations' = [invocations EXCEPT ![c] = <<>>]
    /\ raised' = [raised EXCEPT ![c] = Undefined]
    /\ outcome' = [outcome EXCEPT ![c] = Undefined]
    /\ after' = [after EXCEPT ![c] = FALSE]
    /\ UNCHANGED <<running, docs, listed, hypersyncModule, failed, startVars,
                   resourceVars, val, out, out2, spc>>

\* server.setRequestHandler(ListToolsRequestSchema, ...)
ListTools ==
    /\ Serving
    /\ listed' = ListToolsResponse
    /\ UNCHANGED <<pc, req, reply, invocations, raised, outcome, running, docs,
                   hypersyncModule, failed, after, startVars, resourceVars,
                   val, out, out2, spc>>

\* server.setRequestHandler(ListResourcesRequestSchema, ...)
ListResources ==
    /\ Serving
    /\ NoResourceAnswer
    /\ \A c \in Slots : pc[c] = "idle"
    /\ resources' = ListResourcesResponse
    /\ UNCHANGED <<pc, req, reply, invocations, raised, outcome, running, docs, listed,
                   hypersyncModule, failed, after, startVars, readResource,
                   val, out, out2, spc>>

\* server.setRequestHandler(ReadResourceRequestSchema, ...)
ReadResource(uri) ==
    /\ Serving
    /\ NoResourceAnswer
    /\ \A c \in Slots : pc[c] = "idle"
    /\ readResource' = [uri |-> uri, response |-> ReadResourceHandler(uri)]
    /\ UNCHANGED <<pc, req, reply, invocations, raised, outcome, running, docs, listed,
                   hypersyncModule, failed, after, startVars, resources,
                   val, out, out2, spc>>

\* the answer of a resource handler is sent
ResourceResponded ==
    /\ ~NoResourceAnswer
    /\ resources' = Undefined
    /\ readResource' = Undefined
    /\ UNCHANGED <<pc, req, reply, invocations, raised, outcome, running, docs, listed,
                   hypersyncModule, failed, after, startVars, val, out, out2, spc>>

\* main: await server.connect(transport) resolves and the server announces itself
Connect ==
    /\ transport = "connecting"
    /\ transport' = "connected"
    /\ consoleError' = consoleError \o main
    /\ UNCHANGED <<pc, req, reply, invocations, raised, outcome, running, docs, listed,
                   hypersyncModule, failed, after, exitCode, resourceVars,
                   val, out, out2, spc>>

\* main: await server.connect(transport) rejects with error and main().catch runs
ConnectFails(error) ==
    /\ transport = "connecting"
    /\ transport' = "failed"
    /\ consoleError' = consoleError \o mainCatch(error).logged
    /\ exitCode' = mainCatch(error).exit
    /\ running' = (mainCatch(error).exit = Undefined)
    /\ UNCHANGED <<pc, req, reply, invocations, raised, outcome, docs, listed,
                   hypersyncModule, failed, after, resourceVars, val, out, out2, spc>>

\* calls served one at a time
Next ==
    \/ \E r \in Requests : CallTool(1, r)
    \/ CollaboratorReplies(1, TRUE)
    \/ Respond(1)
    \/ ListTools
    \/ ListResources
    \/ \E uri \in ResourceUris : ReadResource(uri)
    \/ ResourceResponded
    \/ Connect
    \/ \E error \in ConnectErrors : ConnectFails(error)

\* calls in flight together, in every interleaving
ConcNext ==
    \/ \E c \in Slots, r \in ConcRequests : CallTool(c, r)
    \/ \E c \in Slots : CollaboratorReplies(c, FALSE)
    \/ \E c \in Slots : Respond(c)

-----------------------------------------------------------------------------
(* Claims about the serializer, checked under SpecSer *)

\* the base-10 text of each big integer of the model, written out by hand
ExactDecimal(b) ==
    CASE b = Big0 -> "0"
      [] b = Big255 -> "255"
      [] b = BigMinus1 -> "-1"
      [] b = BigU64Max -> "18446744073709551615"
      [] b = BigU128 -> "170141183460469231731687303715884105729"
      [] b = BigI128 -> "-170141183460469231731687303715884105729"

\* y is x with every big integer replaced by its decimal string and everything
\* else, shape, order, length and keys included, left as it was
RECURSIVE SerializedAs(_, _)
SerializedAs(x, y) ==
    CASE x.t \in {"null", "undefined"} -> y = x
      [] x.t = "bigint" -> y = Str(ExactDecimal(x))
      [] x.t = "array" ->
            /\ y.t = "array"
            /\ Len(y.items) = Len(x.items)
            /\ \A i \in 1..Len(x.items) : SerializedAs(x.items[i], y.items[i])
      [] x.t = "object" ->
            /\ y.t = "object"
            /\ Len(y.fields) = Len(x.fields)
            /\ \A i \in 1..Len(x.fields) :
                  /\ y.fields[i].k = x.fields[i].k
                  /\ SerializedAs(x.fields[i].v, y.fields[i].v)
      [] OTHER -> y = x

\* C8: serializeBigInt returns null and undefined unchanged, turns a big integer
\* into the decimal string of its exact value (128-bit magnitudes included),
\* maps a sequence element-wise keeping order and length, maps a field mapping
\* key-wise keeping the keys, and returns every other primitive unchanged.
C8_SerializeMapsEveryShape ==
    spc \in {"once", "twice"} => SerializedAs(val, out)

C8_Witness ==
    /\ spc = "once"
    /\ val = Arr(<<Obj(<<Field("value", BigU128)>>), BigU128>>)
    /\ out = Arr(<<Obj(<<Field("value", Str("170141183460469231731687303715884105729"))>>),
                   Str("170141183460469231731687303715884105729")>>)

\* C9: serializeBigInt is idempotent and total: a second application changes
\* nothing, and no application throws.
C9_SerializeIdempotentTotal ==
    /\ spc \in {"once", "twice"} => ~IsThrow(out)
    /\ spc = "twice" => (~IsThrow(out2) /\ out2 = out)

C9_Witness ==
    /\ spc = "twice"
    /\ val = Obj(<<Field("blockNumber", Arr(<<BigI128, Str("255")>>)), Field("value", BigU128)>>)
    /\ out # val
    /\ out2 = out

-----------------------------------------------------------------------------
(* Claims about the dispatcher and the tool groups, checked under Spec and *)
(* SpecConc                                                                *)

Done(c) == pc[c] = "done"

GroupPrefixes == {"hyperindex_", "hypersync_", "docs_", "config_"}
ClaimedByGroup(name) == name.prefix \in GroupPrefixes

\* the collaborator of the call answered with a failure
CollaboratorFailed(c) == reply[c] \notin {NoReply, Undefined} /\ ~reply[c].ok

InternalErrorPrefix == <<"MCP error ", "-32603", ": ", "Tool execution failed: ">>

\* C1: when a call is routed to a tool group and the group (or what it calls)
\* throws, the caller gets an error of kind InternalError whose message is
\* "Tool execution failed: " followed by the message of the exception thrown;
\* nothing else leaves the handler, and the server keeps running.
C1_GroupExceptionBecomesInternalError ==
    \A c \in Slots :
        Done(c) /\ ClaimedByGroup(req[c].name) /\ raised[c] # Undefined =>
            /\ outcome[c].k = "error"
            /\ outcome[c].code = ErrorCode.InternalError
            /\ outcome[c].message = InternalErrorPrefix \o raised[c].message
            /\ running

C1_Witness ==
    /\ Done(1)
    /\ req[1] = Request("hypersync_", "query_logs", NoArgs)
    /\ raised[1].name = "TypeError"
    /\ outcome[1].message = InternalErrorPrefix
            \o <<"Cannot read properties of ", "undefined", " (reading 'toLowerCase')">>

C3_UnclaimedNameIsMethodNotFound ==
    \A c \in Slots :
        Done(c) =>
            /\ ~ClaimedByGroup(req[c].name) =>
                  outcome[c].k = "error" /\ outcome[c].code = ErrorCode.MethodNotFound
            /\ (ClaimedByGroup(req[c].name) /\ ~Registered(FullName(req[c].name))) =>
                  outcome[c].k = "error" /\ outcome[c].code # ErrorCode.MethodNotFound

\* C4: in every interleaving, the server's state outside the calls never
\* changes, a call issues the collaborator invocation its request alone
\* determines, and two finished calls with the same request and the same
\* reply have the same outcome, whether or not a call failed before them.
C4_CallsAreIndependent ==
    /\ docs = LoadedDocs
    /\ running
    /\ \A c, d \in Slots :
          /\ (pc[c] # "idle" /\ pc[d] # "idle" /\ req[c] = req[d])
                => invocations[c] = invocations[d]
          /\ (Done(c) /\ Done(d) /\ req[c] = req[d] /\ reply[c] = reply[d])
                => outcome[c] = outcome[d]

C4_Witness ==
    /\ Done(1) /\ Done(2)
    /\ after[1] /\ ~after[2]
    /\ req[1] = Request("hypersync_", "query_logs", Obj(<<Field("network", Str("base"))>>))
    /\ req[2] = req[1]
    /\ reply[1] = reply[2]
    /\ reply[1].ok
    /\ outcome[1] = outcome[2]
    /\ ~Failure(outcome[1])

\* the call leaves out a field its descriptor lists as required
MissingRequired(r) ==
    /\ Registered(FullName(r.name))
    /\ \E i \in DOMAIN DescriptorOf(FullName(r.name)).required :
          Get(r.args, DescriptorOf(FullName(r.name)).required[i]) = Undefined

\* C5: a call that leaves out a required field invokes no collaborator and
\* fails with "invalid arguments"; a call whose name matches no descriptor
\* invokes no collaborator either.
C5_MissingRequiredFieldIsRejected ==
    \A c \in Slots :
        pc[c] # "idle" =>
            /\ MissingRequired(req[c]) =>
                  /\ invocations[c] = <<>>
                  /\ Done(c) => (outcome[c].k = "error"
                                 /\ outcome[c].code = ErrorCode.InvalidParams)
            /\ ~Registered(FullName(req[c].name)) => invocations[c] = <<>>

\* C6: no two descriptors of the list that list-tools returns share a name.
C6_ListedNamesUnique ==
    \A i, j \in DOMAIN listed : listed[i].name = listed[j].name => i = j

C6_Witness ==
    /\ Len(listed) = 26
    /\ listed[1].name = "hyperindex_init_project"
    /\ listed[26].name = "config_add_contract"

\* C7: every ToolResult has a non-empty content of text blocks, and when the
\* collaborator of the call failed the result has isError = true and its single
\* text block contains the collaborator's error message.
C7_FailedCallCarriesDiagnostic ==
    \A c \in Slots :
        Done(c) /\ outcome[c].k = "result" =>
            LET content == outcome[c].result.content
            IN /\ content # <<>>
               /\ \A i \in DOMAIN content : content[i].type = "text"
               /\ CollaboratorFailed(c) =>
                     /\ IsError(outcome[c].result)
                     /\ Len(content) = 1
                     /\ Contains(content[1].text, reply[c].message)

QueryTools == {ToolName("hypersync_", "query_logs"), ToolName("hypersync_", "query_transactions")}

\* C10: when hypersync_query_logs or hypersync_query_transactions gets a page
\* whose records carry big integers, the call succeeds and its text shows the
\* first three records with every big integer as its exact decimal string.
C10_BigIntPageYieldsSuccess ==
    \A c \in Slots :
        (/\ Done(c)
         /\ req[c].name \in QueryTools
         /\ reply[c] \notin {NoReply, Undefined}
         /\ reply[c].ok
         /\ HasBigInt(reply[c].res)) =>
            /\ outcome[c].k = "result"
            /\ ~IsError(outcome[c].result)
            /\ LET kind == IF req[c].name.rest = "query_logs" THEN "logs" ELSE "transactions"
                   shown == serializeBigInt(Arr(Slice(Get(Get(reply[c].res, "data"), kind).items, 3)))
               IN \E i \in DOMAIN outcome[c].result.content[1].text :
                     outcome[c].result.content[1].text[i] = Render(shown, 0)

-----------------------------------------------------------------------------
(* Claims about the query tools of HyperSyncTools, checked under Spec *)

\* text ends with the parts of sub
EndsWith(text, sub) ==
    /\ Len(text) >= Len(sub)
    /\ SubSeq(text, Len(text) - Len(sub) + 1, Len(text)) = sub

\* the chunk that precedes the number of logs in the success text of either
\* HyperSyncTools
LogsFoundLabels ==
    {"\n**Logs found:** ", "Query successful!\n\n**Results:**\n- Logs found: "}

\* the call was a hypersync_query_logs that got a page and answered with a
\* success result
LogsPageReported(c) ==
    /\ Done(c)
    /\ req[c].name = ToolName("hypersync_", "query_logs")
    /\ reply[c] \notin {NoReply, Undefined}
    /\ reply[c].ok
    /\ Truthy(reply[c].res)
    /\ outcome[c].k = "result"
    /\ ~IsError(outcome[c].result)

\* C11: the success text of hypersync_query_logs for a page of n logs with
\* cursor nextBlock = c reports the count n, shows exactly the first min(n, 3)
\* logs in their order, and ends with the pagination hint naming from_block: c.
C11_PageReportedWithCountSamplesCursor ==
    \A c \in Slots :
        LogsPageReported(c) =>
            LET res == reply[c].res
                logs == Or(OptGet(Get(res, "data"), "logs"), Arr(<<>>)).items
                text == outcome[c].result.content[1].text
            IN /\ \E i \in 1..(Len(text) - 1) :
                      text[i] \in LogsFoundLabels /\ text[i + 1] = NumberToString(Len(logs))
               /\ Len(logs) > 0 =>
                      Contains(text, <<Render(serializeBigInt(Arr(Slice(logs, 3))), 0)>>)
               /\ EndsWith(text, <<"\n\n**Pagination:** To continue, use 'from_block: ",
                                   ToStr(Get(res, "nextBlock")), "'">>)

\* the network names getNetworkEndpoint knows: the keys of its table
KnownNetworkNames == {NetworkTable[i].key : i \in DOMAIN NetworkTable}

\* some part of text is the string part
HasPart(text, part) == \E i \in DOMAIN text : text[i] = part

\* C12: hypersync_get_network_endpoint invokes no collaborator; a name that is,
\* whatever its case, a known network name gives a success result, which for
\* "base" carries the Base endpoint URL and the chain id 8453; any other name,
\* an absent name included, gives isError = true with a text that lists every
\* known network name.
C12_EndpointLookupIsStatic ==
    \A c \in Slots :
        (/\ Done(c)
         /\ req[c].name = ToolName("hypersync_", "get_network_endpoint")
         /\ req[c].args.t = "object"
         /\ Get(req[c].args, "network_name").t \in {"string", "undefined"}) =>
            LET network_name == Get(req[c].args, "network_name")
                known == /\ network_name.t = "string"
                         /\ LowerCase(network_name.s) \in KnownNetworkNames
            IN /\ invocations[c] = <<>>
               /\ outcome[c].k = "result"
               /\ known => ~IsError(outcome[c].result)
               /\ (known /\ LowerCase(network_name.s) = "base") =>
                     /\ HasPart(outcome[c].result.content[1].text, "https://base.hypersync.xyz")
                     /\ HasPart(outcome[c].result.content[1].text, "8453")
               /\ ~known =>
                     /\ IsError(outcome[c].result)
                     /\ \A n \in KnownNetworkNames :
                           HasPart(outcome[c].result.content[1].text, n)

-----------------------------------------------------------------------------
(* Claims about config validation, checked under Spec *)

\* the call is a finished hyperindex_validate_config that had a document to
\* validate: the config_content it was given, or the file it read
Validated(c) ==
    /\ Done(c)
    /\ req[c].name = ToolName("hyperindex_", "validate_config")
    /\ req[c].args.t = "object"
    /\ \/ Truthy(Get(req[c].args, "config_content"))
       \/ reply[c] \notin {NoReply, Undefined} /\ reply[c].ok

\* the document, as yaml.parse reads it
ValidatedDocument(c) ==
    YamlParse(IF Truthy(Get(req[c].args, "config_content"))
              THEN Get(req[c].args, "config_content").s
              ELSE reply[c].content)

TopLevelFields == <<"name", "networks", "contracts">>

\* the error line of each top-level field
MissingLine(f) ==
    CASE f = "name" -> "Missing 'name' field"
      [] f = "networks" -> "Missing 'networks' array"
      [] f = "contracts" -> "Missing 'contracts' array"

\* the top-level fields a document does not have, in the order name, networks,
\* contracts
RECURSIVE MissingFields(_, _)
MissingFields(config, i) ==
    IF i > Len(TopLevelFields) THEN <<>>
    ELSE (IF Get(config, TopLevelFields[i]) = Undefined
          THEN <<MissingLine(TopLevelFields[i])>> ELSE <<>>)
         \o MissingFields(config, i + 1)

\* C13: hyperindex_validate_config on a well-formed document that lacks some
\* of the top-level fields name, networks, contracts returns isError = true
\* and its text is the header followed by exactly one error line per missing
\* field, all of them in the same result.
C13_EveryMissingFieldIsListed ==
    \A c \in Slots :
        (/\ Validated(c)
         /\ ~IsThrow(ValidatedDocument(c))
         /\ MissingFields(ValidatedDocument(c), 1) # <<>>) =>
            /\ outcome[c].k = "result"
            /\ IsError(outcome[c].result)
            /\ outcome[c].result.content[1].text
                  = <<"Validation errors:\n">> \o Bullets(MissingFields(ValidatedDocument(c), 1))

\* the per-network fields a network entry does not have: its id, its start block
NetworkLacks(net) ==
    (IF Get(net, "id") = Undefined THEN 1 ELSE 0)
    + (IF Get(net, "startblock") = Undefined /\ Get(net, "start_block") = Undefined
       THEN 1 ELSE 0)

RECURSIVE NetworksLack(_)
NetworksLack(nets) ==
    IF nets = <<>> THEN 0 ELSE NetworkLacks(Head(nets)) + NetworksLack(Tail(nets))

\* the document has name, networks and contracts
Complete(config) ==
    /\ ~IsThrow(config)
    /\ MissingFields(config, 1) = <<>>
    /\ Get(config, "networks").t = "array"

\* C14: a document that has name, networks and contracts is rejected when a
\* network entry lacks its id or its start block, with one error line per
\* missing per-network field (the header, the lines and their separators), and
\* is accepted when every network has both, a start block of 0 included.
C14_NetworkEntriesAreValidated ==
    \A c \in Slots :
        (Validated(c) /\ Complete(ValidatedDocument(c))) =>
            LET lacking == NetworksLack(Get(ValidatedDocument(c), "networks").items)
            IN /\ outcome[c].k = "result"
               /\ lacking > 0 =>
                     /\ IsError(outcome[c].result)
                     /\ Len(outcome[c].result.content[1].text) = 2 * lacking
               /\ lacking = 0 => ~IsError(outcome[c].result)

-----------------------------------------------------------------------------
(* Claims about the collaborators a call invokes, checked under Spec *)

\* the call has issued a write of the file at path
Wrote(c, path) ==
    \E i \in DOMAIN invocations[c] :
        /\ invocations[c][i].collab = "fs"
        /\ invocations[c][i].op = "writeFile"
        /\ invocations[c][i].path = path

\* C15: when config_add_network or config_add_contract answers a call that
\* names a config_path with a success result, the document at config_path has
\* the new entry besides its old ones.  The file system is reached through
\* the fs invocations of the call only, so the document can have gained an
\* entry only if the call wrote the file.
C15_SuccessMeansDocumentUpdated ==
    \A c \in Slots :
        (/\ Done(c)
         /\ req[c].name \in {ToolName("config_", "add_network"),
                             ToolName("config_", "add_contract")}
         /\ Get(req[c].args, "config_path").t = "string"
         /\ outcome[c].k = "result"
         /\ ~IsError(outcome[c].result)) =>
            Wrote(c, Get(req[c].args, "config_path").s)

C17_EverySubprocessHasTimeout ==
    \A c \in Slots :
        /\ \A i \in DOMAIN invocations[c] :
              invocations[c][i].collab = "subprocess" => invocations[c][i].timeout > 0
        /\ (Done(c) /\ CollaboratorFailed(c) /\ invocations[c][1].collab = "subprocess"
                /\ reply[c].killed) =>
              outcome[c].k = "result" /\ IsError(outcome[c].result)

\* the described-only and templating tools that the server offers
DescribedTools ==
    { ToolName("hyperindex_", "dev"), ToolName("hyperindex_", "start"),
      ToolName("hyperindex_", "generate_handler"), ToolName("hypersync_", "build_query"),
      ToolName("config_", "create_template") }

\* the two templating tools of the first HyperIndexTools, which executeTool of
\* the current one has no case for
FormerTools ==
    { ToolName("hyperindex_", "configure_multichain"),
      ToolName("hyperindex_", "setup_dynamic_contracts") }

InitTools ==
    { ToolName("hyperindex_", "init_project"),
      ToolName("hyperindex_", "init_contract_import_explorer"),
      ToolName("hyperindex_", "init_contract_import_local"),
      ToolName("hyperindex_", "init_template") }

\* the optional arguments of the init tools that become a flag with a value
OptionalFlags ==
    [directory |-> " -d ", api_token |-> " --api-token ", start_block |-> " -s ",
     rpc_url |-> " -r "]

\* C19: the command line an init tool hands to the subprocess, for a call that
\* supplies every field its descriptor requires: the value of each required
\* field is on it, an optional flag is on it if and only if its argument was
\* supplied (a start block of 0 gives -s 0), and no flag carries the text
\* "undefined" of a missing value.
C19_InitCommandLineIsTheDocumentedOne ==
    \A c \in Slots :
        (/\ pc[c] # "idle"
         /\ req[c].name \in InitTools
         /\ req[c].args.t = "object"
         /\ ~MissingRequired(req[c])) =>
            /\ Len(invocations[c]) = 1
            /\ LET cmd == invocations[c][1].cmd
                   args == req[c].args
                   required == DescriptorOf(FullName(req[c].name)).required
               IN /\ \A i \in DOMAIN required : HasPart(cmd, ToStr(Get(args, required[i])))
                  /\ \A f \in DOMAIN OptionalFlags :
                        (Get(args, f) # Undefined)
                            <=> Contains(cmd, <<OptionalFlags[f], ToStr(Get(args, f))>>)
                  /\ ~HasPart(cmd, "undefined")

\* the selection the claim asks for: match-all when no address is given, else
\* one entry per address given, the sender's first
ExpectedSelection(from, to) ==
    IF ~Truthy(from) /\ ~Truthy(to) THEN Arr(<<Obj(<<>>)>>)
    ELSE Arr((IF Truthy(from) THEN <<Obj(<<Field("from", Arr(<<from>>))>>)>> ELSE <<>>)
             \o (IF Truthy(to) THEN <<Obj(<<Field("to", Arr(<<to>>))>>)>> ELSE <<>>))

\* the queries hypersync_build_query may show for a transactions request with
\* the given block range and selection: the default field selection of either
\* HyperSyncTools, in either order of the keys
BuiltQueries(range, selection) ==
    LET fields(names) ==
            Field("fieldSelection", Obj(<<Field("transaction", Arr(names))>>))
        long == <<Str("TransactionField.Hash"), Str("TransactionField.From"),
                  Str("TransactionField.To"), Str("TransactionField.Value")>>
        short == SubSeq(long, 1, 3)
    IN { Obj(range \o <<fields(long), Field("transactions", selection)>>),
         Obj(range \o <<Field("transactions", selection), fields(short)>>) }

\* C20: the transaction selection that hypersync_query_transactions sends, and
\* that hypersync_build_query shows for query_type transactions, is never the
\* empty list: [{}] with neither address, one entry with one address, two
\* entries (one per address) with both.
C20_TransactionSelectionNeverEmpty ==
    \A c \in Slots :
        /\ (/\ pc[c] # "idle"
            /\ req[c].name = ToolName("hypersync_", "query_transactions")
            /\ invocations[c] # <<>>) =>
              LET selection == Get(invocations[c][1].query, "transactions")
              IN /\ selection.items # <<>>
                 /\ selection = ExpectedSelection(Get(req[c].args, "from_address"),
                                                  Get(req[c].args, "to_address"))
        /\ (/\ Done(c)
            /\ req[c].name = ToolName("hypersync_", "build_query")
            /\ Get(req[c].args, "query_type") = Str("transactions")) =>
              LET args == req[c].args
                  filters == Get(args, "filters")
                  range == <<Field("fromBlock", Num(0))>>
                           \o (IF hypersyncModule = "src/tools/hypersync.ts"
                               THEN Optional("toBlock", Get(args, "to_block")) ELSE <<>>)
                  selection == ExpectedSelection(OptGet(filters, "from"), OptGet(filters, "to"))
              IN /\ outcome[c].k = "result"
                 /\ \E q \in BuiltQueries(range, selection) :
                       HasPart(outcome[c].result.content[1].text, Render(q, 0))

-----------------------------------------------------------------------------
(* Claims about the failure texts of the query tools, checked under Spec *)

\* the chunks of a failure text that carry the hints on the block range and on
\* the address format, as either HyperSyncTools words them
HintChunks ==
    { "\n- Check address format (0x...)\n- Reduce block range\n- Try smaller max_num_logs",
      "\n- Check API token\n- Validate address format (0x...)\n- Ensure block range is reasonable" }

\* C21: when the query client fails, hypersync_query_logs and
\* hypersync_query_transactions return isError = true with a text that has the
\* client's message and the hints (block range, address format) and that does
\* not show the stack trace of the error.
C21_ClientFailureGivesHintsNoStack ==
    \A c \in Slots :
        (Done(c) /\ req[c].name \in QueryTools /\ CollaboratorFailed(c)) =>
            /\ outcome[c].k = "result"
            /\ IsError(outcome[c].result)
            /\ LET text == outcome[c].result.content[1].text
               IN /\ Contains(text, reply[c].message)
                  /\ \E h \in HintChunks : HasPart(text, h)
                  /\ ~Contains(text, reply[c].stack)

-----------------------------------------------------------------------------
(* Claims about the resources, checked under Spec *)

AdvertisedUris ==
    { "docs://hyperindex/overview", "docs://hypersync/overview", "docs://hyperrpc/overview" }

\* the one content of a read-resource answer is markdown text for the requested URI
OneMarkdownContent(answer, uri, text) ==
    /\ Len(answer.contents) = 1
    /\ answer.contents[1].uri = uri
    /\ answer.contents[1].mimeType = "text/markdown"
    /\ answer.contents[1].text = Str(text)

\* C22: list-resources advertises exactly the three overview URIs; reading an
\* advertised URI answers one text/markdown content with that URI and that
\* document's text, never "Documentation not found"; reading any other URI
\* answers the text "Documentation not found"
C22_ResourcesListedAndRead ==
    /\ resources # Undefined =>
          { resources.resources[i].uri : i \in DOMAIN resources.resources } = AdvertisedUris
    /\ readResource # Undefined =>
          IF readResource.uri \in AdvertisedUris
          THEN /\ OneMarkdownContent(readResource.response, readResource.uri,
                                     ResourceDocs[readResource.uri])
               /\ ResourceDocs[readResource.uri] # "Documentation not found"
          ELSE OneMarkdownContent(readResource.response, readResource.uri,
                                  "Documentation not found")

-----------------------------------------------------------------------------
(* Claims about the start of the server, checked under Spec *)

Announced == \E i \in DOMAIN consoleError : consoleError[i] = <<"Envio MCP Server running on stdio">>

FailureLogged ==
    \E i \in DOMAIN consoleError, error \in ConnectErrors :
        consoleError[i] = <<"Fatal error:", error>>

ExitedNonzero == exitCode # Undefined /\ exitCode.t = "number" /\ exitCode.n # 0

\* C23: once the transport connection has failed at start, the failure is on
\* the error stream and the process has exited with a nonzero status, and from
\* then on it never announces that it is running and never serves a request
C23_FailedStartLogsAndExits ==
    [](transport = "failed" =>
          /\ FailureLogged
          /\ ExitedNonzero
          /\ [](/\ ~running
                /\ ~Announced
                /\ \A c \in Slots : pc[c] = "idle"
                /\ listed = <<>>
                /\ NoResourceAnswer))

C23_Witness == transport = "failed" /\ FailureLogged /\ ~running

-----------------------------------------------------------------------------
(* Claims about the documented tools, checked under Spec *)

\* the tools of the "Available Tools" tables of the README
ReadmeTools ==
    { ToolName("hyperindex_", rest) :
        rest \in { "check_installation", "init_project", "init_contract_import_explorer",
                   "init_contract_import_local", "init_template", "dev", "codegen",
                   "start", "stop", "local_docker_up", "local_docker_down",
                   "local_db_migrate_setup", "benchmark_summary", "validate_config",
                   "generate_handler" } }
    \cup { ToolName("hypersync_", rest) :
             rest \in { "query_logs", "query_transactions", "build_query",
                        "get_network_endpoint", "stream_events" } }
    \cup { ToolName("docs_", rest) :
             rest \in { "search", "get_config_reference", "get_examples",
                        "troubleshoot_error" } }
    \cup { ToolName("config_", rest) :
             rest \in { "create_template", "add_network", "add_contract" } }

UnknownToolAnswer(c) ==
    /\ outcome[c].k = "error"
    /\ HasPart(outcome[c].message, "Unknown tool: ")

\* C24: every tool of the README's tables is in the list that list-tools
\* answers, and a call of it is never answered "Unknown tool"
C24_ReadmeToolsAdvertisedAndAccepted ==
    /\ listed # <<>> =>
          \A t \in ReadmeTools : \E i \in DOMAIN listed : listed[i].name = FullName(t)
    /\ \A c \in Slots :
          (Done(c) /\ req[c].name \in ReadmeTools) => ~UnknownToolAnswer(c)

-----------------------------------------------------------------------------
(* Claims about docs_troubleshoot_error, checked under Spec *)

\* the rule table, in order: the substring looked for and the advice given
TroubleshootRules ==
    << [pattern |-> "ENVIO_",
        advice |-> "Environment variable missing. Ensure all ENVIO_* variables are set in .env file."],
       [pattern |-> "codegen",
        advice |-> "Run 'npx envio codegen' to regenerate types after config changes."],
       [pattern |-> "network",
        advice |-> "Check network ID and start_block in config.yaml. Verify network is supported."] >>

DefaultAdvice == "Unable to identify error. Please check Envio docs or Discord."

Matching(message) ==
    { i \in DOMAIN TroubleshootRules : Includes(message, TroubleshootRules[i].pattern) }

\* the advice of the first rule that matches, the default advice when none does
FirstMatchAdvice(message) ==
    IF Matching(message) = {} THEN DefaultAdvice
    ELSE TroubleshootRules[CHOOSE i \in Matching(message) :
                              \A j \in Matching(message) : i <= j].advice

Troubleshot(c) ==
    /\ Done(c)
    /\ req[c].name = ToolName("docs_", "troubleshoot_error")
    /\ Get(req[c].args, "error_message").t = "string"

\* C25: docs_troubleshoot_error answers the advice of the first rule, in the
\* order "ENVIO_", "codegen", "network", whose substring the message contains
\* with the same letter case, and the default advice when no rule matches, so
\* the advice depends on the message alone
C25_FirstMatchingRuleWins ==
    \A c \in Slots :
        Troubleshot(c) =>
            /\ outcome[c].k = "result"
            /\ ~IsError(outcome[c].result)
            /\ LET message == Get(req[c].args, "error_message").s
               IN outcome[c].result.content[1].text
                     = <<"Troubleshooting:\n\nError: ", message, "\n\nSolution: ",
                         FirstMatchAdvice(message)>>

C25_Witness ==
    /\ Troubleshot(1)
    /\ Get(req[1].args, "error_message").s = "ENVIO_RPC missing for network 1"
    /\ Cardinality(Matching("ENVIO_RPC missing for network 1")) = 2
    /\ HasPart(outcome[1].result.content[1].text, TroubleshootRules[1].advice)

-----------------------------------------------------------------------------
(* Claims about the registry and the dispatch tables, checked under Spec *)

\* the four groups: the routing prefix and what getToolDefinitions returns
Groups ==
    { [prefix |-> "hyperindex_", definitions |-> HyperIndexToolDefinitions],
      [prefix |-> "hypersync_", definitions |-> HyperSyncToolDefinitions],
      [prefix |-> "docs_", definitions |-> DocToolDefinitions],
      [prefix |-> "config_", definitions |-> ConfigToolDefinitions] }

\* the group's executeTool has a case for the name: it does not reach its default
Handled(name) ==
    /\ ClaimedByGroup(name)
    /\ Route(name, NoArgs, NoReply) # Raise(Throw("Error", <<"Unknown tool: ", FullName(name)>>))

AdvertisedBy(g, name) ==
    \E i \in DOMAIN g.definitions : g.definitions[i].name = FullName(name)

\* C26: every descriptor name of a group begins with the group's routing
\* prefix and has a case in that group's executeTool, every name that
\* executeTool has a case for is advertised by its group, and so a call with a
\* claimed prefix is answered "Unknown tool" exactly when its name is not
\* advertised
C26_RegistryAndDispatchAgree ==
    /\ \A g \in Groups : \A i \in DOMAIN g.definitions :
          \E r \in Requests :
              /\ r.name.prefix = g.prefix
              /\ FullName(r.name) = g.definitions[i].name
              /\ Handled(r.name)
    /\ \A r \in Requests :
          Handled(r.name) => \E g \in Groups : g.prefix = r.name.prefix /\ AdvertisedBy(g, r.name)
    /\ \A c \in Slots :
          (Done(c) /\ ClaimedByGroup(req[c].name)) =>
              (UnknownToolAnswer(c) <=> ~Registered(FullName(req[c].name)))

C26_Witness ==
    /\ Done(1)
    /\ req[1].name = ToolName("config_", "add_contract")
    /\ Handled(req[1].name)
    /\ ~UnknownToolAnswer(1)
    /\ \E r \in Requests : ClaimedByGroup(r.name) /\ ~Handled(r.name)

-----------------------------------------------------------------------------
(* Claims about the endpoints of the query tools, checked under Spec *)

\* what hypersync_get_network_endpoint answers for the network name
LookedUp(network) ==
    Route(ToolName("hypersync_", "get_network_endpoint"),
          Obj(<<Field("network_name", network)>>), NoReply)

\* C27: a query tool called with a network name sends its query to the URL
\* that hypersync_get_network_endpoint reports for that name, and sends no
\* query at all for a name that the lookup reports as not found
C27_QueryEndpointIsTheLookedUpOne ==
    \A c \in Slots :
        (/\ pc[c] # "idle"
         /\ req[c].name \in QueryTools
         /\ Get(req[c].args, "network").t = "string") =>
            LET lookup == LookedUp(Get(req[c].args, "network")).result
            IN IF IsError(lookup)
               THEN invocations[c] = <<>>
               ELSE \A i \in DOMAIN invocations[c] :
                       /\ invocations[c][i].url.t = "string"
                       /\ HasPart(lookup.content[1].text, invocations[c][i].url.s)

-----------------------------------------------------------------------------
(* Claims about hyperindex_configure_multichain, checked under Spec *)

MultichainCall(c) ==
    /\ pc[c] # "idle"
    /\ req[c].name = ToolName("hyperindex_", "configure_multichain")
    /\ req[c].args.t = "object"
    /\ Get(req[c].args, "networks").t = "array"

UnorderedAnnounced(text) ==
    HasPart(text, "Unordered mode: Better performance, events processed as they arrive")

OrderedAnnounced(text) ==
    HasPart(text, "Ordered mode: Strict ordering across chains, slower sync")

\* C28: for the arguments of a hyperindex_configure_multichain call, the flag
\* unorderedmultichainmode of the generated config is the caller's
\* unordered_mode when one is supplied (false stays false) and true otherwise,
\* and the text announces the unordered mode exactly when the flag is true
C28_UnorderedFlagIsTheCallersChoice ==
    \A c \in Slots :
        MultichainCall(c) =>
            LET supplied == Get(req[c].args, "unordered_mode")
                flag == Get(MultichainConfig(Get(req[c].args, "networks"), supplied),
                            "unorderedmultichainmode")
                text == configureMultichain(req[c].args).result.content[1].text
            IN /\ flag = (IF supplied = Undefined THEN Bool(TRUE) ELSE supplied)
               /\ UnorderedAnnounced(text) <=> flag = Bool(TRUE)
               /\ OrderedAnnounced(text) <=> flag = Bool(FALSE)

-----------------------------------------------------------------------------
(* Claims about the generated configs, checked under Spec *)

HasIdAndStartBlock(networks) ==
    /\ networks.t = "array"
    /\ \A i \in DOMAIN networks.items :
          /\ Get(networks.items[i], "id").t = "number"
          /\ Get(networks.items[i], "start_block").t = "number"

\* the call generates a config from a project name and a network list as the
\* claim describes them
GeneratesConfig(r) ==
    /\ r.args.t = "object"
    /\ \/ /\ r.name = ToolName("config_", "create_template")
          /\ Get(r.args, "project_name").t = "string"
          /\ Get(r.args, "project_name").s # ""
          /\ Get(r.args, "networks") = Undefined \/ HasIdAndStartBlock(Get(r.args, "networks"))
       \/ /\ r.name = ToolName("hyperindex_", "configure_multichain")
          /\ HasIdAndStartBlock(Get(r.args, "networks"))

\* the YAML document in the text of the generating tool
GeneratedDocument(r) ==
    (IF r.name.prefix = "config_" THEN createTemplate(r.args)
     ELSE configureMultichain(r.args)).result.content[1].text[2]

AcceptedByValidateConfig(document) ==
    LET answer == validateConfig(Obj(<<Field("config_content", Str(document))>>), NoReply)
    IN answer.k = "return" /\ ~IsError(answer.result)

\* C29: the document that config_create_template or
\* hyperindex_configure_multichain generates from a non-empty project name and
\* a network list with ids and start blocks (or the default list) is accepted
\* by hyperindex_validate_config as config_content and by ConfigValidator.validate
C29_GeneratedConfigsValidate ==
    \A c \in Slots :
        (pc[c] # "idle" /\ GeneratesConfig(req[c])) =>
            /\ AcceptedByValidateConfig(GeneratedDocument(req[c]))
            /\ validate(GeneratedDocument(req[c])).valid

-----------------------------------------------------------------------------
(* Claims about calls without an arguments object, checked under Spec *)

\* the call is of an advertised tool whose descriptor requires no field, and
\* its request carries no arguments object
NoArgumentsCall(c) ==
    /\ Done(c)
    /\ Registered(FullName(req[c].name))
    /\ DescriptorOf(FullName(req[c].name)).required = <<>>
    /\ req[c].args = Undefined

\* C30: a call of a tool that requires no field, made with no arguments
\* object at all, ends with a ToolResult and not with an exception, and with
\* the outcome that the same call with an empty arguments object has
C30_NoArgumentsIsLikeEmptyArguments ==
    \A c \in Slots :
        NoArgumentsCall(c) =>
            LET like == CallToolHandler(req[c].name, NoArgs, reply[c])
            IN /\ outcome[c].k = "result"
               /\ raised[c] = Undefined
               /\ like.k # "await" => outcome[c] = Outcome(like)

-----------------------------------------------------------------------------
(* Specifications *)

SerInit == ServerInit /\ Started /\ hypersyncModule = "src/tools/hypersync.ts" /\ HarnessInit
SpecSer == SerInit /\ [][SerNext]_vars

\* the server from the start of main
Init == ServerInit /\ Starting /\ hypersyncModule \in HyperSyncModules /\ HarnessIdle
Spec == Init /\ [][Next]_vars

\* the server once main has connected
ConcInit == ServerInit /\ Started /\ hypersyncModule \in HyperSyncModules /\ HarnessIdle
SpecConc == ConcInit /\ [][ConcNext]_vars

=============================================================================
